---- MODULE Spec2Model ----
(***************************************************************************)
(* Model of the ogmash_v2 jukebox.                                         *)
(*                                                                         *)
(*   WorkerSpec : the Cloudflare worker of src/_worker.js (fetch): CORS    *)
(*                preflight, the getMusicList manifest route with its      *)
(*                edge cache and validators, the audio route with byte     *)
(*                ranges, and the unmatched route.                         *)
(*   BufferSpec : calculateBufferStrategy of audio-data/utils.ts.          *)
(*   PlaylistSpec : the PlaylistManager component of playlist/types.ts.    *)
(*   SessionSpec, SessionFairSpec, CallbackSpec : AudioDataManager with    *)
(*                the media element it wraps.                              *)
(*   JukeboxSpec, PlayerSpec : the Jukebox component and its PlayerCard    *)
(*                driving the session.                                     *)
(*   ProgressSpec : the buffer progress reports of refreshPlaybackState.   *)
(*   BuilderSpec : the memoized lookups of playlist-builder/utils.ts.      *)
(*                                                                         *)
(* JavaScript numbers are records [nan, v] so that NaN is a value of the   *)
(* same type as an integer.  Strings that the code parses are sequences of *)
(* one-character strings; strings that the code only builds and compares   *)
(* are TLA+ strings.                                                       *)
(***************************************************************************)
EXTENDS Integers, Sequences, FiniteSets, TLC

VARIABLES
    manifest,     \* R2 object 'music-list.json': NoObject or [uploaded |-> ms]
    audioSize,    \* R2 audio objects: key -> size in bytes
    cache,        \* caches.default: request url -> stored Response or NoResponse
    request,      \* the last request handed to fetch (NoRequest before the first)
    outcome,      \* how that fetch call ended: a returned Response or a throw
    storeCall,    \* the ranged bucket.get issued by that call, if any
    failed,       \* the platform operation that failed during that call
    stats,        \* pair of NetworkStats samples given to calculateBufferStrategy
    strategy,     \* the pair of BufferStrategy results for them
    playlistManager,   \* a mounted PlaylistManager: its state, shuffleOrder, timers
    audioDataManager,  \* an AudioDataManager and the media element it wraps
    jukebox,           \* the Jukebox component: playlistState and pending calls
    observed           \* what the last operation did, and counts of callbacks

workerVars == <<manifest, audioSize, cache, request, outcome, storeCall, failed>>
bufferVars == <<stats, strategy>>
clientVars == <<playlistManager, audioDataManager, jukebox, observed>>
vars == <<manifest, audioSize, cache, request, outcome, storeCall, failed, stats, strategy,
          playlistManager, audioDataManager, jukebox, observed>>

(* The value of a part of the program that a specification does not run *)
Idle == [idle |-> TRUE]
ClientIdle ==
    /\ playlistManager = Idle
    /\ audioDataManager = Idle
    /\ jukebox = Idle
    /\ observed = Idle

-----------------------------------------------------------------------------
(* Bounds *)

MaxUploads == 3        \* number of distinct upload instants of the manifest
MaxSize == 3           \* largest size of the audio blob a.wav, in bytes
MaxRangeNum == 3       \* largest single-digit position used in a Range header
MaxDownlink == 70      \* largest downlink sample, in tenths of a Mbps

(* Upload instants are TimeStep ms apart, so some fall inside a second. *)
TimeStep == 500
UploadTimes == { k * TimeStep : k \in 1..MaxUploads }
MaxSec == (MaxUploads * TimeStep) \div 1000 + 1

-----------------------------------------------------------------------------
(* JavaScript numbers and their conversions *)

Num(v) == [nan |-> FALSE, v |-> v]
NaN == [nan |-> TRUE, v |-> 0]

JsSub(a, b) == IF a.nan \/ b.nan THEN NaN ELSE Num(a.v - b.v)
JsAdd(a, b) == IF a.nan \/ b.nan THEN NaN ELSE Num(a.v + b.v)
JsGe(a, b) == ~a.nan /\ ~b.nan /\ a.v >= b.v

DecDigits == <<"0", "1", "2", "3", "4", "5", "6", "7", "8", "9">>
HexDigits == <<"0", "1", "2", "3", "4", "5", "6", "7", "8", "9",
               "a", "b", "c", "d", "e", "f">>

RECURSIVE Dec(_)
Dec(n) == IF n < 10 THEN DecDigits[n + 1]
          ELSE Dec(n \div 10) \o DecDigits[(n % 10) + 1]

RECURSIVE Hex(_)
Hex(n) == IF n < 16 THEN HexDigits[n + 1]
          ELSE Hex(n \div 16) \o HexDigits[(n % 16) + 1]

(* Number.prototype.toString() / template-literal interpolation *)
JsToString(a) == IF a.nan THEN "NaN"
                 ELSE IF a.v < 0 THEN "-" \o Dec(0 - a.v)
                 ELSE Dec(a.v)

Pad2(n) == IF n < 10 THEN "0" \o Dec(n) ELSE Dec(n)

(* Date.prototype.toUTCString(): second resolution, the milliseconds are   *)
(* dropped.  All instants of the model lie in the first hour of the epoch. *)
toUTCString(ms) ==
    LET s == ms \div 1000
    IN  "Thu, 01 Jan 1970 00:" \o Pad2((s \div 60) % 60) \o ":" \o Pad2(s % 60) \o " GMT"

(* new Date(string).getTime(): the instant of an HTTP date, NaN otherwise. *)
DateParse(str) ==
    IF \E s \in 0..MaxSec : toUTCString(s * 1000) = str
    THEN Num(1000 * (CHOOSE s \in 0..MaxSec : toUTCString(s * 1000) = str))
    ELSE NaN

-----------------------------------------------------------------------------
(* String operations on sequences of characters *)

IsDigit(c) == \E i \in 1..10 : DecDigits[i] = c
DigitVal(c) == (CHOOSE i \in 1..10 : DecDigits[i] = c) - 1

RECURSIVE DigitPrefix(_)
DigitPrefix(s) == IF s = <<>> \/ ~IsDigit(Head(s)) THEN <<>>
                  ELSE <<Head(s)>> \o DigitPrefix(Tail(s))

RECURSIVE DigitsValue(_)
DigitsValue(ds) == IF ds = <<>> THEN 0
                   ELSE 10 * DigitsValue(SubSeq(ds, 1, Len(ds) - 1)) + DigitVal(ds[Len(ds)])

RECURSIVE SkipSpaces(_)
SkipSpaces(s) == IF s /= <<>> /\ Head(s) = " " THEN SkipSpaces(Tail(s)) ELSE s

(* parseInt(s, 10): leading blanks, an optional sign, then the longest run *)
(* of digits; NaN when there is no digit.                                  *)
parseInt(s) ==
    LET t == SkipSpaces(s)
        signed == t /= <<>> /\ Head(t) \in {"-", "+"}
        u == IF signed THEN Tail(t) ELSE t
        ds == DigitPrefix(u)
    IN  IF ds = <<>> THEN NaN
        ELSE IF signed /\ Head(t) = "-" THEN Num(0 - DigitsValue(ds))
        ELSE Num(DigitsValue(ds))

IsPrefix(p, s) == Len(p) <= Len(s) /\ SubSeq(s, 1, Len(p)) = p

(* String.prototype.replace(pattern, ""): the first occurrence is removed. *)
RECURSIVE RemoveFirst(_, _)
RemoveFirst(s, p) == IF s = <<>> THEN <<>>
                     ELSE IF IsPrefix(p, s) THEN SubSeq(s, Len(p) + 1, Len(s))
                     ELSE <<Head(s)>> \o RemoveFirst(Tail(s), p)

(* String.prototype.split(sep) for a one-character separator. *)
RECURSIVE Split(_, _)
Split(s, sep) ==
    IF s = <<>> THEN << <<>> >>
    ELSE LET rest == Split(Tail(s), sep)
         IN  IF Head(s) = sep THEN << <<>> >> \o rest
             ELSE << <<Head(s)>> \o rest[1] >> \o Tail(rest)

BytesEq == <<"b", "y", "t", "e", "s", "=">>

-----------------------------------------------------------------------------
(* Requests, responses and the platform objects of the worker *)

Null == "<null>"                 \* headers.get(name) of an absent header
NoRange == << "<null>" >>        \* the same, for the Range header
NoObject == [uploaded |-> -1]    \* bucket.get found nothing

TextBody(t) == [kind |-> "text", text |-> t, offset |-> 0, length |-> 0]
NullBody == [kind |-> "null", text |-> "", offset |-> 0, length |-> 0]
(* length bytes of the object stored under key, starting at offset *)
BytesBody(key, offset, length) ==
    [kind |-> "bytes", text |-> key, offset |-> offset, length |-> length]

(* new Response(body, {status, headers}); headers are <<name, value>> pairs *)
Response(body, status, headers) == [status |-> status, body |-> body, headers |-> headers]
NoResponse == Response(NullBody, 0, {})

HasHeader(resp, name) == \E h \in resp.headers : h[1] = name
Header(resp, name) ==
    IF HasHeader(resp, name) THEN (CHOOSE h \in resp.headers : h[1] = name)[2] ELSE Null

Returned(resp, put, call, fail) ==
    [kind |-> "return", response |-> resp, put |-> put, call |-> call, failed |-> fail]
Thrown(message, call, fail) ==
    [kind |-> "throw", response |-> Response(TextBody(message), 0, {}),
     put |-> NoResponse, call |-> call, failed |-> fail]

NoCall == [key |-> "", offset |-> NaN, length |-> NaN]
RangeCall(key, offset, length) == [key |-> key, offset |-> offset, length |-> length]

(* Operations of the platform that may fail while a request is served *)
FailPoints == {"none", "cache.match", "bucket.get", "object.text", "cache.put",
               "bucket.get(range)"}
(* What a ranged bucket.get does with a range that is not inside the object *)
RangeOutcomes == {"throw", "null", "object"}

AudioKeys == {"a.wav", "my song.wav"}
OtherSize == 2

(* decodeURIComponent: percent-decoding, URIError on a malformed escape *)
EncodedNames == {"a.wav", "my%20song.wav", "missing.wav", "%E0%A4%A"}
decodeURIComponent(n) ==
    CASE n = "my%20song.wav" -> [ok |-> TRUE, value |-> "my song.wav"]
      [] n = "%E0%A4%A" -> [ok |-> FALSE, value |-> "URI malformed"]
      [] OTHER -> [ok |-> TRUE, value |-> n]

Searches == {"", "?v=2"}

(* generateETag *)
generateETag(lastModified) == "W/\"" \o Hex(lastModified) \o "\""

ClientETags == {Null, "\"abc\""} \cup { generateETag(t) : t \in UploadTimes }
ClientDates == {Null, "", "yesterday"} \cup { toUTCString(s * 1000) : s \in 0..MaxSec }

RangeTokens == { <<DecDigits[n + 1]>> : n \in 0..MaxRangeNum } \cup { <<>>, <<"x">> }
RangeHeaders == { BytesEq \o s \o <<"-">> \o e : s \in RangeTokens, e \in RangeTokens }
                    \cup { <<>>, BytesEq \o <<"1">>, <<"0", "-", "1">>,
                           BytesEq \o <<"0", "-", "1", "0">> }
FewRangeHeaders == { BytesEq \o <<"0", "-", "0">>, BytesEq \o <<"1", "-">> }

Req(method, path, search, inm, ims, range) ==
    [method |-> method, path |-> path, search |-> search,
     ifNoneMatch |-> inm, ifModifiedSince |-> ims, range |-> range]
NoRequest == Req("", <<>>, "", Null, Null, NoRange)

PreflightRequests ==
    { Req("OPTIONS", p, "", Null, Null, NoRange) :
        p \in { <<"getMusicList">>, <<"audio", "a.wav">>, <<"favicon.ico">> } }
MusicListRequests ==
    { Req("GET", <<"getMusicList">>, q, inm, ims, NoRange) :
        q \in Searches, inm \in ClientETags, ims \in ClientDates }
AudioRequests ==
    { Req("GET", <<"audio", n>>, "", Null, Null, r) :
        n \in {"a.wav", "my%20song.wav"}, r \in RangeHeaders \cup {NoRange} }
      \cup { Req("GET", <<"audio", n>>, "", Null, Null, r) :
               n \in EncodedNames, r \in FewRangeHeaders \cup {NoRange} }
OtherRequests ==
    { Req(m, p, "", Null, Null, NoRange) :
        m \in {"GET", "HEAD"}, p \in { <<"audio">>, <<"favicon.ico">>, <<>> } }
Requests == PreflightRequests \cup MusicListRequests \cup AudioRequests \cup OtherRequests

CorsHeader == <<"Access-Control-Allow-Origin", "*">>

-----------------------------------------------------------------------------
(* fetch: CORS preflight (src/_worker.js 45-55) *)

PreflightResponse ==
    Response(NullBody, 200,
        { CorsHeader,
          <<"Access-Control-Allow-Methods", "GET, HEAD, OPTIONS">>,
          <<"Access-Control-Allow-Headers", "Range, Content-Type">>,
          <<"Access-Control-Expose-Headers", "Content-Length, Content-Range">> })

(* fetch: getMusicList (src/_worker.js 58-117) *)

createCacheResponse(content, lastModified, etag) ==
    Response(TextBody(content), 200,
        { <<"Content-Type", "application/json">>,
          <<"Cache-Control", "public, max-age=3600">>,
          <<"ETag", etag>>,
          <<"Last-Modified", toUTCString(lastModified)>>,
          CorsHeader })

NotModifiedResponse(lastModified, etag) ==
    Response(NullBody, 304,
        { <<"Cache-Control", "public, max-age=3600">>,
          <<"ETag", etag>>,
          <<"Last-Modified", toUTCString(lastModified)>>,
          CorsHeader })

(* object.text(): the manifest as uploaded at that instant *)
ManifestText(uploaded) == "music-list@" \o Dec(uploaded)

(* The validator test of line 85 *)
ClientIsCurrent(req, lastModified, etag) ==
    \/ req.ifNoneMatch = etag
    \/ /\ req.ifModifiedSince \notin {Null, ""}
       /\ JsGe(DateParse(req.ifModifiedSince), Num(lastModified))

(* The body of the try block, lines 61-111.  cch is caches.default and obj *)
(* the stored manifest; the cache is keyed by the request url.             *)
MusicListTry(req, cch, obj, fail) ==
    IF fail = "cache.match" THEN Thrown("cache.match failed", NoCall, fail)
    ELSE IF cch[req.search] /= NoResponse
    THEN Returned(cch[req.search], NoResponse, NoCall, "none")
    ELSE IF fail = "bucket.get" THEN Thrown("bucket.get failed", NoCall, fail)
    ELSE IF obj = NoObject
    THEN Returned(Response(TextBody("File not found"), 404, {}), NoResponse, NoCall, "none")
    ELSE LET lastModified == obj.uploaded
             etag == generateETag(lastModified)
         IN  IF ClientIsCurrent(req, lastModified, etag)
             THEN IF fail = "cache.put" THEN Thrown("cache.put failed", NoCall, fail)
                  ELSE Returned(NotModifiedResponse(lastModified, etag),
                                NotModifiedResponse(lastModified, etag), NoCall, "none")
             ELSE IF fail = "object.text" THEN Thrown("object.text failed", NoCall, fail)
             ELSE IF fail = "cache.put" THEN Thrown("cache.put failed", NoCall, fail)
             ELSE Returned(createCacheResponse(ManifestText(lastModified), lastModified, etag),
                           createCacheResponse(ManifestText(lastModified), lastModified, etag),
                           NoCall, "none")

(* try/catch of lines 60-116: every throw becomes a 500 *)
MusicListRoute(req, cch, obj, fail) ==
    LET r == MusicListTry(req, cch, obj, fail)
    IN  IF r.kind = "throw"
        THEN Returned(Response(TextBody("Error fetching music list"), 500, {}),
                      NoResponse, r.call, r.failed)
        ELSE r

-----------------------------------------------------------------------------
(* fetch: audio files (src/_worker.js 120-230) *)

(* Range parsing with the length taken as end - start *)
ParseRangeOffByOne(range, fileSize) ==
    LET parts == Split(RemoveFirst(range, BytesEq), "-")
        start == parseInt(parts[1])
        end == IF Len(parts) >= 2 /\ parts[2] /= <<>>
               THEN parseInt(parts[2]) ELSE Num(fileSize - 1)
    IN  [start |-> start, end |-> end, chunksize |-> JsSub(end, start)]

(* Range parsing, lines 153-157 *)
ParseRange(range, fileSize) ==
    LET parts == Split(RemoveFirst(range, BytesEq), "-")
        start == parseInt(parts[1])
        end == IF Len(parts) >= 2 /\ parts[2] /= <<>>
               THEN parseInt(parts[2]) ELSE Num(fileSize - 1)
    IN  [start |-> start, end |-> end, chunksize |-> JsAdd(JsSub(end, start), Num(1))]

(* bucket.get(key, {range: {offset, length}}): a range that starts inside   *)
(* the object yields at most length bytes, fewer when the object ends       *)
(* first; what any other range yields is left to the platform.             *)
RangeInsideObject(offset, length, size) ==
    ~offset.nan /\ ~length.nan /\ 0 <= offset.v /\ offset.v < size /\ length.v >= 1
Min(a, b) == IF a <= b THEN a ELSE b
SlicedBody(key, offset, length, size) ==
    IF RangeInsideObject(offset, length, size)
    THEN BytesBody(key, offset.v, Min(length.v, size - offset.v))
    ELSE BytesBody(key, 0, 0)

PartialResponse(body, p, fileSize) ==
    Response(body, 206,
        { <<"Content-Type", "audio/wav">>,
          <<"Content-Range", "bytes " \o JsToString(p.start) \o "-" \o JsToString(p.end)
                                 \o "/" \o Dec(fileSize)>>,
          <<"Accept-Ranges", "bytes">>,
          <<"Content-Length", JsToString(p.chunksize)>>,
          CorsHeader,
          <<"Access-Control-Expose-Headers", "Content-Length, Content-Range">>,
          <<"Cache-Control", "public, max-age=2592000">> })

(* The full-file reply announcing the index of the last byte as length *)
FullResponseShort(key, fileSize) ==
    Response(BytesBody(key, 0, fileSize), 200,
        { <<"Content-Type", "audio/wav">>,
          <<"Content-Length", Dec(fileSize - 1)>>,
          CorsHeader,
          <<"Access-Control-Expose-Headers", "Content-Length, Content-Range">>,
          <<"Accept-Ranges", "bytes">>,
          <<"Cache-Control", "public, max-age=2592000">> })

(* Lines 198-207 *)
FullResponse(key, fileSize) ==
    Response(BytesBody(key, 0, fileSize), 200,
        { <<"Content-Type", "audio/wav">>,
          <<"Content-Length", Dec(fileSize)>>,
          CorsHeader,
          <<"Access-Control-Expose-Headers", "Content-Length, Content-Range">>,
          <<"Accept-Ranges", "bytes">>,
          <<"Cache-Control", "public, max-age=2592000">> })

(* Lines 146-194: the branch taken when a Range header is present *)
RangeBranch(key, range, fileSize, fail, platform) ==
    LET p == ParseRange(range, fileSize)
        call == RangeCall(key, p.start, p.chunksize)
        inside == RangeInsideObject(p.start, p.chunksize, fileSize)
    IN  IF fail = "bucket.get(range)" THEN Thrown("bucket.get failed", call, fail)
        ELSE IF ~inside /\ platform = "throw" THEN Thrown("invalid range", call, "none")
        ELSE IF ~inside /\ platform = "null"
        THEN Thrown("Failed to get slice of file", call, "none")
        ELSE Returned(PartialResponse(SlicedBody(key, p.start, p.chunksize, fileSize),
                                      p, fileSize),
                      NoResponse, call, "none")

(* The body of the try block, lines 123-215 *)
AudioTry(req, sizes, fail, platform) ==
    LET decoded == decodeURIComponent(req.path[2])
        key == decoded.value
    IN  IF ~decoded.ok THEN Thrown(decoded.value, NoCall, "none")
        ELSE IF fail = "bucket.get" THEN Thrown("bucket.get failed", NoCall, fail)
        ELSE IF key \notin DOMAIN sizes
        THEN Returned(Response(TextBody("Audio file not found"), 404, {CorsHeader}),
                      NoResponse, NoCall, "none")
        ELSE IF req.range \notin {NoRange, <<>>}
        THEN RangeBranch(key, req.range, sizes[key], fail, platform)
        ELSE Returned(FullResponse(key, sizes[key]), NoResponse, NoCall, "none")

(* The audio route without its catch clause *)
AudioRouteUncaught(req, sizes, fail, platform) == AudioTry(req, sizes, fail, platform)

(* try/catch of lines 122-229 *)
AudioRoute(req, sizes, fail, platform) ==
    LET r == AudioTry(req, sizes, fail, platform)
    IN  IF r.kind = "throw"
        THEN Returned(Response(TextBody("Error fetching audio: " \o r.response.body.text),
                               500, {CorsHeader}),
                      NoResponse, r.call, r.failed)
        ELSE r

NotFoundResponse == Response(TextBody("Not Found"), 404, {CorsHeader})

(* fetch(request, env): the route dispatch of lines 34-237 *)
fetch(req, cch, obj, sizes, fail, platform) ==
    IF req.method = "OPTIONS" THEN Returned(PreflightResponse, NoResponse, NoCall, "none")
    ELSE IF req.path = <<"getMusicList">> THEN MusicListRoute(req, cch, obj, fail)
    ELSE IF Len(req.path) >= 2 /\ req.path[1] = "audio"
    THEN AudioRoute(req, sizes, fail, platform)
    ELSE Returned(NotFoundResponse, NoResponse, NoCall, "none")

-----------------------------------------------------------------------------
(* Actions of the worker *)

(* The platform operations a request can reach *)
IsAudio(req) == req.method /= "OPTIONS" /\ Len(req.path) >= 2 /\ req.path[1] = "audio"
FailPointsOf(req) ==
    IF req.method = "OPTIONS" THEN {"none"}
    ELSE IF req.path = <<"getMusicList">>
    THEN {"none", "cache.match", "bucket.get", "object.text", "cache.put"}
    ELSE IF IsAudio(req) THEN {"none", "bucket.get", "bucket.get(range)"}
    ELSE {"none"}

(* A request arrives and fetch runs to completion. *)
Fetch ==
    /\ outcome.kind = "none"
    /\ \E req \in Requests :
      \E fail \in FailPointsOf(req) :
        \E platform \in (IF fail = "none" /\ IsAudio(req) THEN RangeOutcomes ELSE {"throw"}) :
        LET r == fetch(req, cache, manifest, audioSize, fail, platform)
        IN  /\ request' = req
            /\ outcome' = [kind |-> r.kind, response |-> r.response]
            /\ storeCall' = r.call
            /\ failed' = r.failed
            /\ cache' = IF r.put = NoResponse THEN cache
                        ELSE [cache EXCEPT ![req.search] = r.put]
            /\ UNCHANGED <<manifest, audioSize, stats, strategy, clientVars>>

(* The response has gone to the client; the worker waits for a request. *)
Respond ==
    /\ outcome.kind /= "none"
    /\ request' = NoRequest
    /\ outcome' = [kind |-> "none", response |-> NoResponse]
    /\ storeCall' = NoCall
    /\ failed' = "none"
    /\ UNCHANGED <<manifest, audioSize, cache, stats, strategy, clientVars>>

(* The manifest is uploaded (again) to the bucket, at a later instant. *)
Upload ==
    \E t \in UploadTimes :
        /\ outcome.kind = "none"
        /\ t > manifest.uploaded
        /\ manifest' = [uploaded |-> t]
        /\ UNCHANGED <<audioSize, cache, request, outcome, storeCall, failed, stats, strategy, clientVars>>

(* The edge cache drops an entry (expiry of max-age, eviction). *)
Evict ==
    \E q \in Searches :
        /\ outcome.kind = "none"
        /\ cache[q] /= NoResponse
        /\ cache' = [cache EXCEPT ![q] = NoResponse]
        /\ UNCHANGED <<manifest, audioSize, request, outcome, storeCall, failed, stats, strategy, clientVars>>

IdleStats == [downlink |-> Num(0), rtt |-> 0]
IdleStrategy == [minBuffer |-> 0, maxBuffer |-> 0, rebufferPoint |-> 0, reason |-> ""]

WorkerInit ==
    /\ manifest = NoObject
    /\ audioSize \in { [k \in AudioKeys |-> IF k = "a.wav" THEN n ELSE OtherSize] :
                         n \in 1..MaxSize }
    /\ cache = [q \in Searches |-> NoResponse]
    /\ request = NoRequest
    /\ outcome = [kind |-> "none", response |-> NoResponse]
    /\ storeCall = NoCall
    /\ failed = "none"
    /\ stats = <<IdleStats, IdleStats>>
    /\ strategy = <<IdleStrategy, IdleStrategy>>
    /\ ClientIdle

WorkerNext == Fetch \/ Respond \/ Upload \/ Evict

WorkerSpec == WorkerInit /\ [][WorkerNext]_vars

-----------------------------------------------------------------------------
(* calculateBufferStrategy (audio-data/utils.ts 4-34) *)

(* downlink is held in tenths of a Mbps, the resolution of toFixed(1) *)
Tenths == 10
FAST == 5
MEDIUM == 2

(* Number.prototype.toFixed(1) *)
toFixed1(d) == IF d.nan THEN "NaN" ELSE Dec(d.v \div Tenths) \o "." \o Dec(d.v % Tenths)

(* JavaScript a > b, false when either side is NaN *)
JsGt(a, b) == ~a.nan /\ ~b.nan /\ a.v > b.v

BufferStrategy(min, max, rebuffer, reason) ==
    [minBuffer |-> min, maxBuffer |-> max, rebufferPoint |-> rebuffer, reason |-> reason]

(* The tiers with inclusive thresholds *)
calculateBufferStrategyInclusive(networkStats) ==
    LET downlink == networkStats.downlink
    IN  IF JsGe(downlink, Num(FAST * Tenths))
        THEN BufferStrategy(2, 10, 3,
                 "Fast network detected: " \o toFixed1(downlink) \o " Mbps")
        ELSE IF JsGe(downlink, Num(MEDIUM * Tenths))
        THEN BufferStrategy(5, 15, 5,
                 "Medium network detected: " \o toFixed1(downlink) \o " Mbps")
        ELSE BufferStrategy(15, 30, 10,
                 "Slow network detected: " \o toFixed1(downlink) \o " Mbps")

(* The tiers with the comparisons turned round *)
calculateBufferStrategyReversed(networkStats) ==
    LET downlink == networkStats.downlink
    IN  IF JsGt(Num(FAST * Tenths), downlink)
        THEN BufferStrategy(2, 10, 3,
                 "Fast network detected: " \o toFixed1(downlink) \o " Mbps")
        ELSE IF JsGt(Num(MEDIUM * Tenths), downlink)
        THEN BufferStrategy(5, 15, 5,
                 "Medium network detected: " \o toFixed1(downlink) \o " Mbps")
        ELSE BufferStrategy(15, 30, 10,
                 "Slow network detected: " \o toFixed1(downlink) \o " Mbps")

calculateBufferStrategy(networkStats) ==
    LET downlink == networkStats.downlink
    IN  IF JsGt(downlink, Num(FAST * Tenths))
        THEN BufferStrategy(2, 10, 3,
                 "Fast network detected: " \o toFixed1(downlink) \o " Mbps")
        ELSE IF JsGt(downlink, Num(MEDIUM * Tenths))
        THEN BufferStrategy(5, 15, 5,
                 "Medium network detected: " \o toFixed1(downlink) \o " Mbps")
        ELSE BufferStrategy(15, 30, 10,
                 "Slow network detected: " \o toFixed1(downlink) \o " Mbps")

Downlinks == { Num(d) : d \in 0..MaxDownlink } \cup {NaN}
Rtts == {0, 50}
NetworkStats == { [downlink |-> d, rtt |-> r] : d \in Downlinks, r \in Rtts }

(* Two samples are handed to calculateBufferStrategy. *)
Calculate ==
    /\ strategy = <<IdleStrategy, IdleStrategy>>
    /\ strategy' = <<calculateBufferStrategy(stats[1]), calculateBufferStrategy(stats[2])>>
    /\ UNCHANGED <<manifest, audioSize, cache, request, outcome, storeCall, failed, stats, clientVars>>

BufferInit ==
    /\ stats \in NetworkStats \X NetworkStats
    /\ strategy = <<IdleStrategy, IdleStrategy>>
    /\ manifest = NoObject
    /\ audioSize = [k \in AudioKeys |-> OtherSize]
    /\ cache = [q \in Searches |-> NoResponse]
    /\ request = NoRequest
    /\ outcome = [kind |-> "none", response |-> NoResponse]
    /\ storeCall = NoCall
    /\ failed = "none"
    /\ ClientIdle

BufferNext == Calculate

BufferSpec == BufferInit /\ [][BufferNext]_vars

(* The worker and the buffer calculation at rest, for the specifications of *)
(* the browser side                                                         *)
ServerIdle ==
    /\ manifest = NoObject
    /\ audioSize = [k \in AudioKeys |-> OtherSize]
    /\ cache = [q \in Searches |-> NoResponse]
    /\ request = NoRequest
    /\ outcome = [kind |-> "none", response |-> NoResponse]
    /\ storeCall = NoCall
    /\ failed = "none"
    /\ stats = <<IdleStats, IdleStats>>
    /\ strategy = <<IdleStrategy, IdleStrategy>>

-----------------------------------------------------------------------------
(* Properties of the audio route *)

Digit(n) == <<DecDigits[n + 1]>>
RangeHeader(startToken, endToken) == BytesEq \o startToken \o <<"-">> \o endToken

Replied == outcome.kind = "return"
Status == outcome.response.status

(* The last request was for a stored audio blob and every read succeeded. *)
AudioServed ==
    /\ Replied /\ IsAudio(request) /\ failed = "none"
    /\ decodeURIComponent(request.path[2]).ok
    /\ decodeURIComponent(request.path[2]).value \in DOMAIN audioSize
AudioKey == decodeURIComponent(request.path[2]).value
FileSize == audioSize[AudioKey]

(* C1: a request for a stored blob with Range: bytes=start-end, where      *)
(* 0 <= start <= end < size, is answered 206; exactly end-start+1 bytes at *)
(* offset start are requested from the store and delivered, Content-Length *)
(* is end-start+1 and Content-Range is "bytes start-end/size" (the reads   *)
(* of the store succeeding).                                               *)
C1_ValidRangeServed ==
    AudioServed =>
        \A s \in 0..MaxRangeNum, e \in 0..MaxRangeNum :
            (request.range = RangeHeader(Digit(s), Digit(e)) /\ s <= e /\ e < FileSize) =>
                /\ Status = 206
                /\ storeCall = RangeCall(AudioKey, Num(s), Num(e - s + 1))
                /\ outcome.response.body = BytesBody(AudioKey, s, e - s + 1)
                /\ Header(outcome.response, "Content-Length") = Dec(e - s + 1)
                /\ Header(outcome.response, "Content-Range")
                     = "bytes " \o Dec(s) \o "-" \o Dec(e) \o "/" \o Dec(FileSize)

C1_Witness ==
    /\ AudioServed
    /\ request.range = RangeHeader(Digit(1), Digit(2))
    /\ FileSize = 3
    /\ Status = 206

(* C2: a request without a Range header for a stored blob is answered 200  *)
(* with the whole blob as body and Content-Length equal to its size.       *)
C2_FullFileServed ==
    (AudioServed /\ request.range = NoRange) =>
        /\ Status = 200
        /\ outcome.response.body = BytesBody(AudioKey, 0, FileSize)
        /\ Header(outcome.response, "Content-Length") = Dec(FileSize)

C2_Witness ==
    /\ AudioServed /\ request.range = NoRange
    /\ FileSize = 3
    /\ Status = 200

(* C3: in a range reply the end position is size-1 when the header omits   *)
(* it and is clamped to size-1 when the requested end is >= size, so the   *)
(* Content-Range end never exceeds size-1 and Content-Length never exceeds *)
(* size - start.                                                           *)
C3_EndClamped ==
    (AudioServed /\ Status = 206) =>
        \A s \in 0..MaxRangeNum :
            s < FileSize =>
                /\ request.range = RangeHeader(Digit(s), <<>>) =>
                     /\ Header(outcome.response, "Content-Range")
                          = "bytes " \o Dec(s) \o "-" \o Dec(FileSize - 1) \o "/" \o Dec(FileSize)
                     /\ Header(outcome.response, "Content-Length") = Dec(FileSize - s)
                /\ \A e \in 0..MaxRangeNum :
                     (request.range = RangeHeader(Digit(s), Digit(e)) /\ e >= FileSize) =>
                         /\ Header(outcome.response, "Content-Range")
                              = "bytes " \o Dec(s) \o "-" \o Dec(FileSize - 1)
                                    \o "/" \o Dec(FileSize)
                         /\ Header(outcome.response, "Content-Length") = Dec(FileSize - s)

(* A Range header that is malformed or cannot be satisfied *)
UnsatisfiableRange ==
    \/ \E e \in RangeTokens : request.range = RangeHeader(<<"x">>, e)
    \/ \E s \in 0..MaxRangeNum, e \in 0..MaxRangeNum :
          /\ request.range = RangeHeader(Digit(s), Digit(e))
          /\ (s > e \/ s >= FileSize)
    \/ \E s \in 0..MaxRangeNum :
          request.range = RangeHeader(Digit(s), <<>>) /\ s >= FileSize

(* C4: a request whose Range header is malformed or unsatisfiable          *)
(* (non-numeric start, start > end, start >= size) is answered 416.        *)
C4_BadRangeIs416 ==
    (AudioServed /\ UnsatisfiableRange) => Status = 416

-----------------------------------------------------------------------------
(* Properties of the manifest route and of fetch as a whole *)

IsMusicList(req) == req.method /= "OPTIONS" /\ req.path = <<"getMusicList">>

(* C5: a getMusicList request whose If-None-Match is the current weak ETag *)
(* of the manifest is answered 304 without a body, whatever its            *)
(* If-Modified-Since and whatever requests came before.                    *)
C5_MatchingETagIs304 ==
    ( /\ Replied /\ IsMusicList(request) /\ failed = "none"
      /\ manifest /= NoObject
      /\ request.ifNoneMatch = generateETag(manifest.uploaded) )
    => (Status = 304 /\ outcome.response.body = NullBody)

(* C6: every response of fetch carries Access-Control-Allow-Origin: *.     *)
C6_AlwaysCors ==
    Replied => CorsHeader \in outcome.response.headers

(* C7: fetch never throws; when an operation of the blob store or of the   *)
(* cache fails, the response has status 500 and an error body.             *)
C7_FailuresBecome500 ==
    /\ outcome.kind /= "throw"
    /\ (outcome.kind = "return" /\ failed /= "none") =>
           /\ Status = 500
           /\ outcome.response.body.kind = "text"
           /\ outcome.response.body.text /= ""

C7_Witness ==
    /\ Replied /\ IsAudio(request)
    /\ failed = "bucket.get(range)"
    /\ Status = 500

(* C8: after the manifest has been uploaded again, a getMusicList request  *)
(* is answered from the new manifest: the validators of the response are   *)
(* those of the stored manifest, not those of a stale cache entry.         *)
C8_NoStaleManifest ==
    ( /\ Replied /\ IsMusicList(request) /\ failed = "none"
      /\ manifest /= NoObject
      /\ Status \in {200, 304} )
    => /\ Header(outcome.response, "ETag") = generateETag(manifest.uploaded)
       /\ Header(outcome.response, "Last-Modified") = toUTCString(manifest.uploaded)
       /\ Status = 200 => outcome.response.body = TextBody(ManifestText(manifest.uploaded))

-----------------------------------------------------------------------------
(* Properties of calculateBufferStrategy *)

Calculated == strategy /= <<IdleStrategy, IdleStrategy>>
Thresholds(b) == <<b.minBuffer, b.maxBuffer, b.rebufferPoint>>

(* C9: the thresholds are (2, 10, 3) when downlink > 5, (5, 15, 5) when    *)
(* 2 < downlink <= 5 and (15, 30, 10) when downlink <= 2; two samples with *)
(* the same downlink get the same strategy whatever their other fields.    *)
C9_ThreeTiers ==
    Calculated =>
        /\ \A i \in 1..2 :
              LET d == stats[i].downlink
              IN  ~d.nan =>
                    /\ d.v > 5 * Tenths => Thresholds(strategy[i]) = <<2, 10, 3>>
                    /\ (2 * Tenths < d.v /\ d.v <= 5 * Tenths) => Thresholds(strategy[i]) = <<5, 15, 5>>
                    /\ d.v <= 2 * Tenths => Thresholds(strategy[i]) = <<15, 30, 10>>
        /\ stats[1].downlink = stats[2].downlink => strategy[1] = strategy[2]

C9_Witness ==
    /\ Calculated
    /\ stats[1].downlink = Num(50) /\ stats[2].downlink = Num(51)
    /\ stats[1].rtt /= stats[2].rtt
    /\ Thresholds(strategy[1]) = <<5, 15, 5>>
    /\ Thresholds(strategy[2]) = <<2, 10, 3>>

(* C10: calculateBufferStrategy is monotonic: for downlinks d1 <= d2 the   *)
(* minBuffer, maxBuffer and rebufferPoint for d2 are each <= those for d1. *)
C10_Monotonic ==
    ( /\ Calculated
      /\ ~stats[1].downlink.nan /\ ~stats[2].downlink.nan
      /\ stats[1].downlink.v <= stats[2].downlink.v )
    => /\ strategy[2].minBuffer <= strategy[1].minBuffer
       /\ strategy[2].maxBuffer <= strategy[1].maxBuffer
       /\ strategy[2].rebufferPoint <= strategy[1].rebufferPoint

C10_Witness ==
    /\ Calculated
    /\ stats[1].downlink = Num(10) /\ stats[2].downlink = Num(30)
    /\ strategy[2].rebufferPoint < strategy[1].rebufferPoint

-----------------------------------------------------------------------------
(* The playlist sequencer: playlist/utils.ts and the PlaylistManager       *)
(* component of playlist/types.ts.  Indices are zero-based as in the code; *)
(* a sequence s holds the element of index i at s[i + 1].                   *)

MaxItems == 3          \* longest playlist
MaxTimers == 1         \* most mode-change timers pending at once

SongNames == <<"A", "B", "C", "D", "E">>
toLowerCase == [n \in {"A", "B", "C", "D", "E"} |->
                  CASE n = "A" -> "a" [] n = "B" -> "b" [] n = "C" -> "c"
                    [] n = "D" -> "d" [] OTHER -> "e"]
PlaylistItem(n) == [songName |-> SongNames[n], path |-> "/music/" \o SongNames[n] \o ".wav"]
Playlists == { [k \in 1..n |-> PlaylistItem(k)] : n \in 0..MaxItems }
PlaybackModes == {"normal", "shuffle", "preview"}

(* undefined, as the result of indexing an array outside its bounds *)
Undefined == -1
NoItem == [songName |-> "", path |-> ""]
NoSong == ""
ItemAt(items, i) == IF i \in 0..(Len(items) - 1) THEN items[i + 1] ELSE NoItem
At(order, i) == IF i \in 0..(Len(order) - 1) THEN order[i + 1] ELSE Undefined

(* getNextSongIndex (playlist/utils.ts 3-14); null is the value Stop *)
Stop == -2
getNextSongIndex(currentIndex, totalSongs, mode, repeat) ==
    IF currentIndex >= totalSongs - 1
    THEN (IF repeat THEN 0 ELSE Stop)
    ELSE currentIndex + 1

(* The sequential branch of PlaylistManager.handleSongEnd (151-162) *)
(* made to wrap whatever repeat says                                *)
NextSequentialIndexWrapping(state) ==
    IF state.currentIndex >= Len(state.items) - 1
    THEN 0
    ELSE state.currentIndex + 1

NextSequentialIndex(state) ==
    IF state.currentIndex >= Len(state.items) - 1
    THEN (IF state.repeat THEN 0 ELSE Stop)
    ELSE state.currentIndex + 1

(* the exchange written as a plain copy of element j over element i *)
SwapCopying(order, i, j) ==
    [k \in 1..Len(order) |-> IF k = i + 1 THEN order[j + 1] ELSE order[k]]

(* [order[i], order[j]] = [order[j], order[i]] *)
Swap(order, i, j) ==
    [k \in 1..Len(order) |-> IF k = i + 1 THEN order[j + 1]
                             ELSE IF k = j + 1 THEN order[i + 1]
                             ELSE order[k]]

(* The loop of initializeShuffleOrder from position i downwards: every order *)
(* that some run of Math.random can give                                      *)
RECURSIVE ShuffleFrom(_, _)
ShuffleFrom(order, i) ==
    IF i <= 0 THEN {order}
    ELSE UNION { ShuffleFrom(Swap(order, i, j), i - 1) : j \in 0..i }

initializeShuffleOrder(length) ==
    ShuffleFrom([k \in 1..length |-> k - 1], length - 1)

(* Array.prototype.findIndex / indexOf: -1 when absent *)
IndexOf(order, x) ==
    IF \E k \in 1..Len(order) : order[k] = x
    THEN (CHOOSE k \in 1..Len(order) :
              order[k] = x /\ \A m \in 1..(k - 1) : order[m] /= x) - 1
    ELSE -1

(* getNextShuffleIndex: with an empty order the remainder is NaN and the *)
(* element read is undefined                                             *)
getNextShuffleIndex(order, currentIndex) ==
    IF Len(order) = 0 THEN Undefined
    ELSE At(order, (IndexOf(order, currentIndex) + 1) % Len(order))

(* [...order.slice(k), ...order.slice(0, k)] *)
Rotate(order, k) == SubSeq(order, k + 1, Len(order)) \o SubSeq(order, 1, k)

(* The audio session as PlaylistManager drives it: the path it holds and *)
(* whether it plays.  loadAudio may fail, and then holds nothing.         *)
NoAudio == [src |-> "", playing |-> FALSE]
LoadedAudio(path, ok, play) ==
    IF ok THEN [src |-> path, playing |-> play] ELSE NoAudio

(* updateState: nothing once unmounted *)
updateState(pm, updated) == IF pm.mounted THEN updated ELSE pm

(* stopPlaylist (215-225) *)
stopPlaylist(pm) ==
    updateState([pm EXCEPT !.audio = NoAudio],
                [pm EXCEPT !.audio = NoAudio, !.isPlaying = FALSE])

(* handleSongEnd (140-189); ok says whether loadAudio succeeds *)
handleSongEnd(pm, ok) ==
    IF ~pm.mounted THEN pm
    ELSE LET nextIndex == IF pm.mode = "shuffle"
                          THEN getNextShuffleIndex(pm.shuffleOrder, pm.currentIndex)
                          ELSE NextSequentialIndex(pm)
             nextSong == ItemAt(pm.items, nextIndex)
         IN  IF nextIndex = Stop THEN stopPlaylist(pm)
             ELSE IF nextSong = NoItem THEN pm
             ELSE [pm EXCEPT !.currentIndex = nextIndex,
                             !.currentSong = nextSong.songName,
                             !.isPlaying = TRUE,
                             !.audio = LoadedAudio(nextSong.path, ok, TRUE)]

(* getNextSong (343-359), given the order that is in place when it reads it *)
getNextSong(pm, order) ==
    IF Len(pm.items) = 0 THEN NoItem
    ELSE IF pm.mode = "shuffle"
    THEN ItemAt(pm.items, At(order, pm.currentIndex))
    ELSE ItemAt(pm.items, pm.currentIndex)

(* startPlaylist (191-213): optMode is options.mode, "" when absent; order is *)
(* the shuffle order getNextSong leaves behind                                *)
startPlaylist(pm, optMode, order, ok) ==
    LET mode == IF optMode = "" THEN pm.mode ELSE optMode
        firstSong == getNextSong(pm, order)
        shuffled == [pm EXCEPT !.shuffleOrder = order]
    IN  IF Len(pm.items) = 0 THEN pm
        ELSE IF firstSong = NoItem THEN shuffled
        ELSE IF ~ok THEN [shuffled EXCEPT !.audio = NoAudio]
        ELSE updateState(
                 [shuffled EXCEPT !.audio = LoadedAudio(firstSong.path, TRUE, TRUE)],
                 [shuffled EXCEPT !.audio = LoadedAudio(firstSong.path, TRUE, TRUE),
                                  !.mode = mode,
                                  !.isPlaying = TRUE,
                                  !.currentSong = toLowerCase[firstSong.songName]])

(* The orders getNextSong can leave behind *)
OrdersOnStart(pm) ==
    IF Len(pm.items) > 0 /\ pm.mode = "shuffle" /\ Len(pm.shuffleOrder) = 0
    THEN initializeShuffleOrder(Len(pm.items))
    ELSE {pm.shuffleOrder}

(* playPrevious (231-238) *)
playPrevious(pm) ==
    IF ~pm.mounted THEN pm
    ELSE [pm EXCEPT !.currentIndex = IF pm.currentIndex - 1 < 0
                                     THEN Len(pm.items) - 1
                                     ELSE pm.currentIndex - 1]

(* jumpToIndex (240-271) *)
jumpToIndex(pm, index, ok) ==
    IF index < 0 \/ index >= Len(pm.items) THEN pm
    ELSE LET song == ItemAt(pm.items, index)
             updated == updateState(pm, [pm EXCEPT !.currentIndex = index,
                                                   !.currentSong = song.songName,
                                                   !.isPlaying = TRUE])
             shuffleIndex == IndexOf(pm.shuffleOrder, index)
             order == IF updated.mode = "shuffle" /\ shuffleIndex /= -1
                      THEN Rotate(pm.shuffleOrder, shuffleIndex)
                      ELSE pm.shuffleOrder
         IN  [updated EXCEPT !.shuffleOrder = order,
                             !.audio = LoadedAudio(song.path, ok, TRUE)]

(* handleRepeatChange (273-275) *)
handleRepeatChange(pm, repeat) == updateState(pm, [pm EXCEPT !.repeat = repeat])

(* firstSong.songName (306) with firstSong undefined: a TypeError *)
ModeChangeThrows(pm, newMode, order) ==
    newMode = "shuffle" /\ ItemAt(pm.items, At(order, 0)) = NoItem

(* handleModeChange (277-327); order is the result of initializeShuffleOrder. *)
(* With no items firstSong is undefined and reading its songName throws,     *)
(* before the state is touched and before the timer is set.                  *)
handleModeChange(pm, newMode, order, ok) ==
    LET stopped == [pm EXCEPT !.audio = NoAudio]
    IN  IF newMode = "shuffle"
        THEN LET firstIndex == At(order, 0)
                 firstSong == ItemAt(pm.items, firstIndex)
                 shuffled == [stopped EXCEPT !.shuffleOrder = order]
             IN  IF ModeChangeThrows(pm, newMode, order) THEN shuffled
                 ELSE [updateState(shuffled,
                                   [shuffled EXCEPT !.mode = newMode,
                                                    !.isPlaying = FALSE,
                                                    !.currentIndex = firstIndex,
                                                    !.currentSong = firstSong.songName])
                          EXCEPT !.audio = LoadedAudio(firstSong.path, ok, FALSE)]
        ELSE LET reset == updateState(stopped,
                              [stopped EXCEPT !.mode = newMode,
                                              !.isPlaying = FALSE,
                                              !.currentIndex = 0,
                                              !.currentSong = ItemAt(pm.items, 0).songName])
             IN  [reset EXCEPT !.timers = IF newMode = "preview" THEN @ + 1 ELSE @]

(* What the last call on the PlaylistManager was, and the state it found *)
NoCallYet == [op |-> "none", index |-> 0, order |-> <<>>, mode |-> "", repeat |-> FALSE,
              mounted |-> FALSE, arg |-> 0, newMode |-> "", threw |-> FALSE]
Called(op, pm, arg) ==
    [op |-> op, index |-> pm.currentIndex, order |-> pm.shuffleOrder, mode |-> pm.mode,
     repeat |-> pm.repeat, mounted |-> pm.mounted, arg |-> arg, newMode |-> "",
     threw |-> FALSE]

PlaylistQuiet == observed.op = "none"
PlaylistFrame == UNCHANGED <<workerVars, bufferVars, audioDataManager, jukebox>>

(* The 'ended' signal reaches the manager (playNext is the same call). *)
HandleSongEnd ==
    \E ok \in BOOLEAN :
        /\ PlaylistQuiet
        /\ playlistManager' = handleSongEnd(playlistManager, ok)
        /\ observed' = Called("handleSongEnd", playlistManager, 0)
        /\ PlaylistFrame

StartPlaylist ==
    \E ok \in BOOLEAN, optMode \in {""} \cup PlaybackModes,
       order \in OrdersOnStart(playlistManager) :
        /\ PlaylistQuiet
        /\ playlistManager' = startPlaylist(playlistManager, optMode, order, ok)
        /\ observed' = Called("startPlaylist", playlistManager, 0)
        /\ PlaylistFrame

StopPlaylist ==
    /\ PlaylistQuiet
    /\ playlistManager' = stopPlaylist(playlistManager)
    /\ observed' = Called("stopPlaylist", playlistManager, 0)
    /\ PlaylistFrame

PlayPrevious ==
    /\ PlaylistQuiet
    /\ playlistManager' = playPrevious(playlistManager)
    /\ observed' = Called("playPrevious", playlistManager, 0)
    /\ PlaylistFrame

JumpToIndex ==
    \E ok \in BOOLEAN, index \in -1..MaxItems :
        /\ PlaylistQuiet
        /\ playlistManager' = jumpToIndex(playlistManager, index, ok)
        /\ observed' = Called("jumpToIndex", playlistManager, index)
        /\ PlaylistFrame

HandleRepeatChange ==
    \E repeat \in BOOLEAN :
        /\ PlaylistQuiet
        /\ playlistManager' = handleRepeatChange(playlistManager, repeat)
        /\ observed' = Called("handleRepeatChange", playlistManager, 0)
        /\ PlaylistFrame

HandleModeChange ==
    \E ok \in BOOLEAN, newMode \in PlaybackModes :
      \E order \in (IF newMode = "shuffle"
                    THEN initializeShuffleOrder(Len(playlistManager.items))
                    ELSE {playlistManager.shuffleOrder}) :
        /\ PlaylistQuiet
        /\ newMode = "preview" => playlistManager.timers < MaxTimers
        /\ playlistManager' = handleModeChange(playlistManager, newMode, order, ok)
        /\ observed' = [Called("handleModeChange", playlistManager, 0)
                            EXCEPT !.newMode = newMode,
                                   !.threw = ModeChangeThrows(playlistManager, newMode, order)]
        /\ PlaylistFrame

(* The 100 ms timer of a change to preview mode fires (322-326). *)
ModeTimerFires ==
    \E ok \in BOOLEAN, order \in OrdersOnStart(playlistManager) :
        /\ PlaylistQuiet
        /\ playlistManager.timers > 0
        /\ playlistManager' =
               [startPlaylist(playlistManager, "preview", order, ok)
                    EXCEPT !.timers = playlistManager.timers - 1]
        /\ observed' = Called("timer", playlistManager, 0)
        /\ PlaylistFrame

(* The host renders the component with another items prop; nothing reads it *)
(* after the constructor.                                                    *)
ReceiveItems ==
    \E n \in 0..MaxItems :
        /\ PlaylistQuiet
        /\ n /= Len(playlistManager.items)
        /\ observed' = Called("receiveItems", playlistManager, n)
        /\ UNCHANGED playlistManager
        /\ PlaylistFrame

(* componentWillUnmount (97-110) *)
Unmount ==
    /\ PlaylistQuiet
    /\ playlistManager.mounted
    /\ playlistManager' = [playlistManager EXCEPT !.mounted = FALSE]
    /\ observed' = Called("unmount", playlistManager, 0)
    /\ PlaylistFrame

(* The call has returned. *)
Settle ==
    /\ ~PlaylistQuiet
    /\ observed' = NoCallYet
    /\ UNCHANGED playlistManager
    /\ PlaylistFrame

(* The constructor (58-83) and componentDidMount (85-95) have run. *)
PlaylistInit ==
    /\ \E items \in Playlists, mode \in PlaybackModes, repeat \in BOOLEAN :
         \E order \in (IF mode = "shuffle" THEN initializeShuffleOrder(Len(items))
                       ELSE {<<>>}) :
           playlistManager = [items |-> items, currentIndex |-> 0, isPlaying |-> FALSE,
                              mode |-> mode, repeat |-> repeat, currentSong |-> NoSong,
                              mounted |-> TRUE, shuffleOrder |-> order, timers |-> 0,
                              audio |-> NoAudio]
    /\ observed = NoCallYet
    /\ audioDataManager = Idle
    /\ jukebox = Idle
    /\ ServerIdle

PlaylistNext ==
    \/ HandleSongEnd \/ StartPlaylist \/ StopPlaylist \/ PlayPrevious \/ JumpToIndex
    \/ HandleRepeatChange \/ HandleModeChange \/ ModeTimerFires \/ ReceiveItems
    \/ Unmount \/ Settle

PlaylistSpec == PlaylistInit /\ [][PlaylistNext]_vars

-----------------------------------------------------------------------------
(* Properties of the playlist sequencer *)

EndHandled ==
    /\ observed.op = "handleSongEnd"
    /\ observed.mounted
ItemCount == Len(playlistManager.items)
(* the manager has stopped where it stood *)
StoppedAt(index) ==
    /\ playlistManager.currentIndex = index
    /\ ~playlistManager.isPlaying
    /\ playlistManager.audio = NoAudio

(* C11: in sequential (normal) mode the index after an end-of-track is       *)
(* currentIndex + 1; at the last index it is 0 when repeat is on, and with   *)
(* repeat off there is no next track: getNextSongIndex gives null and the    *)
(* manager stops where it is.                                                *)
C11_SequentialNext ==
    /\ \A total \in 1..MaxItems : \A currentIndex \in 0..(total - 1) : \A repeat \in BOOLEAN :
           getNextSongIndex(currentIndex, total, "normal", repeat) =
               IF currentIndex = total - 1
               THEN (IF repeat THEN 0 ELSE Stop)
               ELSE currentIndex + 1
    /\ ( /\ EndHandled
         /\ observed.mode = "normal"
         /\ observed.index \in 0..(ItemCount - 1) )
       => IF observed.index = ItemCount - 1
          THEN IF observed.repeat
               THEN playlistManager.currentIndex = 0
               ELSE StoppedAt(observed.index)
          ELSE playlistManager.currentIndex = observed.index + 1

(* the last of three tracks has ended with repeat off *)
C11_Witness ==
    /\ EndHandled
    /\ observed.mode = "normal"
    /\ ItemCount = 3
    /\ observed.index = 2
    /\ ~observed.repeat
    /\ StoppedAt(2)

IsPermutation(order, n) ==
    /\ Len(order) = n
    /\ \A v \in 0..(n - 1) : Cardinality({k \in 1..n : order[k] = v}) = 1

C15_ShuffleStopsAtEnd ==
    ( /\ EndHandled
      /\ observed.mode = "shuffle"
      /\ ~observed.repeat
      /\ ItemCount > 0
      /\ IsPermutation(observed.order, ItemCount)
      /\ observed.index = observed.order[ItemCount] )
    => StoppedAt(observed.index)

-----------------------------------------------------------------------------
(* The playback session: AudioDataManager (audio-data/index.tsx 171-665)   *)
(* with the HTMLAudioElement it wraps, and the Jukebox component           *)
(* (jukebox/index.tsx) that owns playlistState and hands the manager its   *)
(* onSongEnd callback.                                                     *)
(*                                                                         *)
(* One action is one browser task: a call from outside or the dispatch of  *)
(* one media event, together with the promise continuations it releases,   *)
(* which run in the order in which the promises were settled.              *)

MaxTime == 2           \* longest track, in seconds
MaxLoads == 2          \* most loadAudio calls awaiting their signal at once
MaxSeeks == 1          \* most seek calls awaiting 'canplay' at once
MaxCalls == 2          \* callback invocations counted per loaded track
MaxAdded == 2          \* longest playlist the user builds by adding songs

(* duration of the track at a path; the second song is shorter *)
Duration(path) == IF path = PlaylistItem(2).path THEN MaxTime - 1 ELSE MaxTime

LifecycleEvents == {"ended", "timeupdate", "waiting", "canplay", "error"}
(* the handlers one call of setupAudioListeners creates; owner tells the *)
(* calls apart: the constructor, or the path of the load that made it    *)
ListenerSet(owner) == { [event |-> e, owner |-> owner] : e \in LifecycleEvents }
NoListener == [event |-> "", owner |-> ""]

(* HTMLMediaElement: readiness of the resource named by src *)
HasData(audio) == audio.phase \in {"data", "ready"}
(* audio.duration: NaN until the metadata is there *)
duration(audio) == IF HasData(audio) THEN Num(Duration(audio.src)) ELSE NaN
isFinite(n) == ~n.nan

(* The promise of a play() call that found no data is pending until the   *)
(* element can play; pause(), load() and a failed fetch reject it.        *)
RejectPlay(audio) ==
    [audio EXCEPT !.playPromise = IF @ = "pending" THEN "rejected" ELSE @]
ResolvePlay(audio) ==
    [audio EXCEPT !.playPromise = IF @ = "pending" THEN "resolved" ELSE @]

(* HTMLMediaElement.pause() *)
ElementPause(audio) == [RejectPlay(audio) EXCEPT !.paused = TRUE]

(* HTMLMediaElement.load(): the load algorithm resets the element and, with *)
(* a src, starts fetching it                                               *)
ElementLoad(audio) ==
    [RejectPlay(audio) EXCEPT !.phase = IF audio.src = "" THEN "empty" ELSE "loading",
                              !.paused = TRUE,
                              !.currentTime = 0,
                              !.buffered = -1]

(* Math.max(0, Math.min(time, duration)) with no lower limit *)
ClampSeekTimeUnbounded(time, dur) == IF time < dur THEN time ELSE dur

(* Math.max(0, Math.min(time, duration)) (425) *)
ClampSeekTime(time, dur) ==
    LET least == IF time < dur THEN time ELSE dur
    IN  IF least > 0 THEN least ELSE 0

(* assignment to audio.currentTime: with data the element seeks, and the *)
(* seek algorithm keeps the position inside the resource                *)
SetCurrentTime(audio, t) ==
    [audio EXCEPT !.currentTime =
        IF ~HasData(audio) THEN t
        ELSE IF t < 0 THEN 0
        ELSE IF t > Duration(audio.src) THEN Duration(audio.src)
        ELSE t]

(* HTMLMediaElement.play(): a track that has ended starts again from the *)
(* beginning; without data the element is no longer paused and the      *)
(* promise stays pending                                                *)
ElementPlay(audio) ==
    [audio EXCEPT !.paused = FALSE,
                  !.currentTime = IF HasData(audio) /\ @ = Duration(audio.src) THEN 0 ELSE @,
                  !.playPromise = IF HasData(audio) THEN @ ELSE "pending"]

(* cleanupAudioListeners (209-218) *)
cleanupAudioListeners(adm) ==
    [adm EXCEPT !.audio.listeners = @ \ adm.eventListeners,
                !.eventListeners = {}]

(* setupAudioListeners (228-280) that does not remove the existing ones *)
setupAudioListenersKeeping(adm, owner) ==
    [adm EXCEPT !.audio.listeners = @ \cup ListenerSet(owner),
                !.eventListeners = @ \cup ListenerSet(owner)]

(* setupAudioListeners (228-280) *)
setupAudioListeners(adm, owner) ==
    LET cleaned == cleanupAudioListeners(adm)
    IN  [cleaned EXCEPT !.audio.listeners = @ \cup ListenerSet(owner),
                        !.eventListeners = ListenerSet(owner)]

(* The onSongEnd callback: the one given to the constructor, one put in *)
(* place through the setter, or undefined                               *)
NoCallback == "undefined"
SongEndCallbacks == {"constructed", "replaced"}
(* the other four callbacks of AudioCallbacks (179, 186) *)
HostCallbacks ==
    [onPlaybackStats |-> "constructed", onBufferingChange |-> "constructed",
     onBufferProgress |-> "constructed", onAudioDataUpdate |-> "constructed"]

(* cleanup (363-406) that forgets the callback instead of restoring it *)
cleanupClearing(adm) ==
    LET cleaned == cleanupAudioListeners(adm)
    IN  [cleaned EXCEPT !.isInitialized = FALSE,
                        !.isTransitioning = FALSE,
                        !.onSongEndCallback = NoCallback,
                        !.audio = ElementLoad([cleaned.audio EXCEPT !.src = ""])]

(* cleanup (363-406) *)
cleanup(adm) ==
    LET savedCallback == adm.onSongEndCallback
        cleaned == cleanupAudioListeners(adm)
    IN  [cleaned EXCEPT !.isInitialized = FALSE,
                        !.isTransitioning = FALSE,
                        !.onSongEndCallback = savedCallback,
                        !.audio = ElementLoad([cleaned.audio EXCEPT !.src = ""])]

(* The constructor (184-195) *)
NewAudioDataManager ==
    setupAudioListeners(
        [isInitialized |-> FALSE, isTransitioning |-> FALSE,
         onSongEndCallback |-> "constructed", callbacks |-> HostCallbacks,
         eventListeners |-> {},
         audio |-> [src |-> "", phase |-> "empty", paused |-> TRUE, currentTime |-> 0,
                    buffered |-> -1, listeners |-> {},
                    playPromise |-> "none"],
         loads |-> <<>>, seeks |-> <<>>],
        "constructor")

(* What is kept about a run, next to the program's own state: how often the *)
(* callback ran for the loaded track, whether the session is torn down, and *)
(* what the last task did.                                                  *)
NoSeekWrite == [requested |-> 0, time |-> 0, duration |-> -1, buffered |-> FALSE]
NothingObserved ==
    [op |-> "none", songEndCalls |-> 0, tornDown |-> FALSE, invoked |-> FALSE,
     wasTornDown |-> FALSE, completed |-> {}, played |-> {}, seekWrote |-> NoSeekWrite,
     calls |-> <<>>, trail |-> <<>>, finiteTime |-> TRUE]

(* The manager, the Jukebox and the record of the run, as one value that the *)
(* methods transform                                                        *)
World == [adm |-> audioDataManager, jb |-> jukebox, obs |-> observed]

(* A task begins: what the task before it did is forgotten, the outcome of *)
(* a settled play() promise included                                       *)
Begin(w, op) ==
    [w EXCEPT !.obs.op = op, !.obs.invoked = FALSE, !.obs.wasTornDown = w.obs.tornDown,
              !.obs.completed = {}, !.obs.played = {}, !.obs.seekWrote = NoSeekWrite,
              !.obs.finiteTime = TRUE,
              !.adm.audio.playPromise = IF @ = "pending" THEN @ ELSE "none"]

LastTwo(seq) == IF Len(seq) > 2 THEN SubSeq(seq, Len(seq) - 1, Len(seq)) ELSE seq

(* who awaits a loadAudio call, and what it goes on to do *)
Caller(kind, index, from) == [kind |-> kind, index |-> index, from |-> from]
Direct == Caller("direct", 0, 0)

(* cleanup() as a step of the run *)
Teardown(w) == [w EXCEPT !.adm = cleanup(w.adm), !.obs.tornDown = TRUE]

(* loadAudio up to its await (282-329): teardown, the one-shot 'loadeddata' *)
(* and 'error' listeners of this call, the new src and load()               *)
loadAudio(w, path, caller) ==
    LET savedCallback == w.adm.onSongEndCallback
        torn == Teardown(w)
    IN  [torn EXCEPT !.adm.onSongEndCallback = savedCallback,
                     !.adm.loads = Append(@, [path |-> path, caller |-> caller]),
                     !.adm.audio = ElementLoad([torn.adm.audio EXCEPT !.src = path]),
                     !.obs.calls = LastTwo(Append(w.obs.calls, path))]

(* AudioDataManager.play (484-500) *)
play(w, load) ==
    [w EXCEPT !.adm.audio = ElementPlay(@),
              !.obs.played = @ \cup {[path |-> load.path, src |-> w.adm.audio.src]}]

(* handlePlayModeChange (43-48): setPlaylistState(prev => ({...prev, ...state})) *)
handlePlayModeChange(w, currentIndex, isPlaying) ==
    [w EXCEPT !.jb.currentIndex = currentIndex, !.jb.isPlaying = isPlaying]

(* The index has moved by an end-of-track advance. *)
Advanced(w, index) ==
    [w EXCEPT !.obs.trail = IF Len(@) > MaxItems THEN @ ELSE Append(@, index)]

(* PlayerCard.handleModeChange after its loadAudio has resolved (339-357): *)
(* the state of the new mode, the position put back to 0, and             *)
(* onPlayPlaylist, which is handlePlaylistStart of the render the handler *)
(* belongs to and loads the same first song once more (387-398, 289-301)  *)
ModeChanged(w, load) ==
    LET changed == [w EXCEPT !.jb.mode = load.caller.kind,
                             !.jb.isPlaying = FALSE,
                             !.jb.currentIndex = 0,
                             !.adm.audio = SetCurrentTime(@, 0)]
    IN  loadAudio(changed, load.path, Caller("start", 0, 0))

(* What the caller of a loadAudio does once the call has resolved:          *)
(* loadAndPlay of the onSongEnd callback (254-262), handlePlaylistStart     *)
(* through handleSongLoad (301-302, 401-405), handlePlaylistSongSelect      *)
(* (424-429), the preview timeout of PlayerCard (478-488), its              *)
(* handleModeChange; a direct caller plays.                                 *)
AfterLoad(w, load) ==
    LET caller == load.caller
        playing == play(w, load)
    IN  CASE caller.kind = "songEnd"
               -> Advanced(handlePlayModeChange(playing, caller.index, TRUE), caller.index)
          [] caller.kind \in {"start", "select"}
               -> [handlePlayModeChange(playing, caller.index, TRUE)
                      EXCEPT !.obs.trail = <<caller.index>>]
          [] caller.kind = "previewTimeout"
               -> Advanced([handlePlayModeChange(playing, caller.index, TRUE)
                               EXCEPT !.jb.mode = "preview"],
                           caller.index)
          [] caller.kind \in PlaybackModes -> ModeChanged(w, load)
          [] OTHER -> playing

(* the catch of loadAndPlay writing the next index instead of the one it *)
(* had read when the track ended                                        *)
AfterFailedLoadAdvancing(w, load) ==
    LET caller == load.caller
    IN  CASE caller.kind = "songEnd" -> handlePlayModeChange(w, caller.index, FALSE)
          [] caller.kind = "start"
               -> [handlePlayModeChange(w, caller.index, TRUE)
                      EXCEPT !.obs.trail = <<caller.index>>]
          [] OTHER -> w

(* What the caller does once the call has rejected: the catch of loadAndPlay *)
(* (263-271); handleSongLoad swallows the error, so handlePlaylistStart goes *)
(* on (303-305, 401-405); handlePlaylistSongSelect has no catch.             *)
AfterFailedLoad(w, load) ==
    LET caller == load.caller
    IN  CASE caller.kind = "songEnd" -> handlePlayModeChange(w, caller.from, FALSE)
          [] caller.kind = "start"
               -> [handlePlayModeChange(w, caller.index, TRUE)
                      EXCEPT !.obs.trail = <<caller.index>>]
          [] OTHER -> w

(* loadAudio after its await resolved (331-339), then its caller *)
LoadResolved(w, load) ==
    LET ready == [w EXCEPT !.adm = [setupAudioListeners(w.adm, load.path)
                                       EXCEPT !.isInitialized = TRUE],
                           !.obs.tornDown = FALSE,
                           !.obs.songEndCalls = 0,
                           !.obs.completed = @ \cup {[path |-> load.path,
                                                      src |-> w.adm.audio.src]}]
    IN  AfterLoad(ready, load)

(* loadAudio after its await rejected (340-344), then its caller *)
LoadRejected(w, load) == AfterFailedLoad(Teardown(w), load)

(* The onSongEnd callback the Jukebox gives the manager (223-275); pick is *)
(* the index Math.random selects in shuffle mode                           *)
onSongEnd(w, pick) ==
    LET state == w.jb
        currentIndex == state.currentIndex
        nextIndex == IF state.mode = "shuffle" THEN pick
                     ELSE (currentIndex + 1) % Len(state.items)
        nextSong == ItemAt(state.items, nextIndex)
    IN  IF Len(state.items) = 0 THEN w
        ELSE IF currentIndex = -1 THEN w
        ELSE IF nextSong = NoItem THEN w
        ELSE loadAudio(w, nextSong.path, Caller("songEnd", nextIndex, currentIndex))

(* availableIndices[Math.floor(Math.random() * availableIndices.length)]: *)
(* undefined when the current song is the only one                        *)
Picks(state) ==
    LET availableIndices == (0..(Len(state.items) - 1)) \ {state.currentIndex}
    IN  IF state.mode = "shuffle" /\ availableIndices /= {}
        THEN availableIndices
        ELSE {Undefined}

(* AudioDataManager.handleSongEnd (347-361) without the isInitialized test *)
audioHandleSongEndUnguarded(w, pick) ==
    IF w.adm.onSongEndCallback /= NoCallback /\ ~w.adm.isTransitioning
    THEN onSongEnd([w EXCEPT !.obs.invoked = TRUE,
                             !.obs.songEndCalls = IF @ < MaxCalls THEN @ + 1 ELSE @],
                   pick)
    ELSE w

(* AudioDataManager.handleSongEnd (347-361) *)
audioHandleSongEnd(w, pick) ==
    IF w.adm.onSongEndCallback /= NoCallback /\ ~w.adm.isTransitioning
       /\ w.adm.isInitialized
    THEN onSongEnd([w EXCEPT !.obs.invoked = TRUE,
                             !.obs.songEndCalls = IF @ < MaxCalls THEN @ + 1 ELSE @],
                   pick)
    ELSE w

(* the test of line 419 without the test of the time *)
InvalidSeekDurationOnly(time, dur) == ~isFinite(dur)

(* !isFinite(time) || !isFinite(audio.duration) (419) *)
InvalidSeek(time, dur) == ~isFinite(time) \/ ~isFinite(dur)

(* seek (408-482) up to its await, or to its end on the buffered path; the *)
(* element has one buffered range, from 0 to audio.buffered               *)
seek(w, time) ==
    LET audio == w.adm.audio
        wasPlaying == ~audio.paused
        dur == duration(audio)
        clampedTime == ClampSeekTime(time.v, dur.v)
        hasBufferedData == audio.buffered >= 0 /\ clampedTime >= 0
                           /\ clampedTime <= audio.buffered
        found == { l \in w.adm.eventListeners : l.event = "timeupdate" }
        timeupdateListener == IF found = {} THEN NoListener ELSE CHOOSE l \in found : TRUE
    IN  IF ~w.adm.isInitialized THEN w
        ELSE IF InvalidSeek(time, dur) THEN w
        ELSE IF ~hasBufferedData
        THEN [w EXCEPT !.adm.audio = ElementLoad([audio EXCEPT !.listeners =
                                                      @ \ {timeupdateListener}]),
                       !.adm.seeks = Append(@, [time |-> time.v,
                                                clampedTime |-> clampedTime,
                                                duration |-> dur.v,
                                                timeupdateListener |-> timeupdateListener,
                                                wasPlaying |-> wasPlaying])]
        ELSE [w EXCEPT !.adm.audio = IF wasPlaying
                                     THEN ElementPlay(SetCurrentTime(audio, clampedTime))
                                     ELSE SetCurrentTime(audio, clampedTime),
                       !.obs.seekWrote = [requested |-> time.v, time |-> clampedTime,
                                          duration |-> dur.v, buffered |-> TRUE]]

(* canplayHandler of a waiting seek (446-450) and the rest of seek (455-477) *)
SeekResumed(w, sk) ==
    LET positioned == SetCurrentTime(w.adm.audio, sk.clampedTime)
        reattached == IF sk.timeupdateListener = NoListener THEN positioned
                      ELSE [positioned EXCEPT !.listeners = @ \cup {sk.timeupdateListener}]
    IN  [w EXCEPT !.adm.audio = IF sk.wasPlaying THEN ElementPlay(reattached)
                                ELSE reattached,
                  !.obs.seekWrote = [requested |-> sk.time, time |-> sk.clampedTime,
                                     duration |-> sk.duration, buffered |-> FALSE]]

(* The handlers of one event run in the order of their registration. *)
RECURSIVE ResolveLoads(_, _)
ResolveLoads(w, loads) ==
    IF loads = <<>> THEN w
    ELSE ResolveLoads(LoadResolved(w, Head(loads)), Tail(loads))

RECURSIVE RejectLoads(_, _)
RejectLoads(w, loads) ==
    IF loads = <<>> THEN w
    ELSE RejectLoads(LoadRejected(w, Head(loads)), Tail(loads))

RECURSIVE ResumeSeeks(_, _)
ResumeSeeks(w, seeks) ==
    IF seeks = <<>> THEN w
    ELSE ResumeSeeks(SeekResumed(w, Head(seeks)), Tail(seeks))

RECURSIVE EndedHandlers(_, _, _)
EndedHandlers(w, n, pick) ==
    IF n = 0 THEN w
    ELSE EndedHandlers(audioHandleSongEnd(w, pick), n - 1, pick)

(* no preview timeout is pending *)
NoTimer == [armed |-> FALSE, items |-> <<>>, currentIndex |-> 0]

(* The preview effect of PlayerCard (450-500) after a render: it runs again *)
(* when the mode, isPlaying or the index have changed, clears the timeout  *)
(* of its last run and, in preview mode while playing, sets one whose      *)
(* callback reads the playlist state of this render.                       *)
PreviewEffect(prev, state) ==
    IF <<state.mode, state.isPlaying, state.currentIndex>> =
       <<prev.mode, prev.isPlaying, prev.currentIndex>>
    THEN state
    ELSE [state EXCEPT !.previewTimeout =
             IF state.mode = "preview" /\ state.isPlaying
             THEN [armed |-> TRUE, items |-> state.items,
                   currentIndex |-> state.currentIndex]
             ELSE NoTimer]

Becomes(w) ==
    /\ audioDataManager' = w.adm
    /\ jukebox' = PreviewEffect(jukebox, w.jb)
    /\ observed' = w.obs
    /\ UNCHANGED <<workerVars, bufferVars, playlistManager>>

(* 'loadeddata': the resource named by src has its first frame; b seconds *)
(* of it are buffered.  Every loadHandler on the element runs.            *)
LoadedData ==
    \E b \in 0..MaxTime :
        /\ audioDataManager.audio.phase = "loading"
        /\ b <= Duration(audioDataManager.audio.src)
        /\ LET w == Begin(World, "loadeddata")
               arrived == [w EXCEPT !.adm.audio.phase = "data",
                                    !.adm.audio.buffered = b,
                                    !.adm.loads = <<>>]
           IN  Becomes(ResolveLoads(arrived, w.adm.loads))

(* 'canplay': every canplayHandler of a waiting seek runs. *)
CanPlay ==
    /\ audioDataManager.audio.phase = "data"
    /\ LET w == Begin(World, "canplay")
           arrived == [w EXCEPT !.adm.audio = ResolvePlay([@ EXCEPT !.phase = "ready"]),
                                !.adm.seeks = <<>>]
       IN  Becomes(ResumeSeeks(arrived, w.adm.seeks))

(* 'error': the resource could not be fetched.  Every errorHandler on the *)
(* element runs; a waiting seek has no handler for it.                    *)
MediaError ==
    /\ audioDataManager.audio.phase = "loading"
    /\ LET w == Begin(World, "error")
           arrived == [w EXCEPT !.adm.audio = RejectPlay([@ EXCEPT !.phase = "error"]),
                                !.adm.loads = <<>>]
       IN  Becomes(RejectLoads(arrived, w.adm.loads))

(* 'ended': playback has reached the end; the element pauses itself and *)
(* every 'ended' handler on it runs (238-242).                          *)
Ended ==
    \E pick \in Picks(jukebox) :
        /\ HasData(audioDataManager.audio)
        /\ ~audioDataManager.audio.paused
        /\ LET w == Begin(World, "ended")
               audio == w.adm.audio
               arrived == [w EXCEPT !.adm.audio.paused = TRUE,
                                    !.adm.audio.currentTime = Duration(audio.src)]
               handlers == { l \in audio.listeners : l.event = "ended" }
           IN  Becomes(EndedHandlers(arrived, Cardinality(handlers), pick))

(* 'progress': the whole resource is buffered. *)
Progress ==
    /\ HasData(audioDataManager.audio)
    /\ audioDataManager.audio.buffered < Duration(audioDataManager.audio.src)
    /\ LET w == Begin(World, "progress")
       IN  Becomes([w EXCEPT !.adm.audio.buffered = Duration(w.adm.audio.src)])

(* Calls on the manager from outside *)

Paths == { PlaylistItem(1).path, PlaylistItem(2).path }
SeekTimes == { Num(t) : t \in -1..(MaxTime + 1) } \cup {NaN}

(* a call that is not a loadAudio ends a run of loadAudio calls *)
Other(w, op) == [Begin(w, op) EXCEPT !.obs.calls = <<>>]

LoadAudio ==
    \E path \in Paths :
        /\ Len(audioDataManager.loads) < MaxLoads
        /\ Becomes(loadAudio(Begin(World, "loadAudio"), path, Direct))

Cleanup ==
    Becomes(Teardown(Other(World, "cleanup")))

CallHandleSongEnd ==
    \E pick \in Picks(jukebox) :
        Becomes(audioHandleSongEnd(Other(World, "handleSongEnd"), pick))

Seek ==
    \E time \in SeekTimes :
        LET w == [Other(World, "seek") EXCEPT !.obs.finiteTime = isFinite(time)]
        IN  /\ Len(seek(w, time).adm.seeks) <= MaxSeeks
            /\ Becomes(seek(w, time))

(* the onSongEnd setter (205-207) *)
SetOnSongEnd ==
    \E callback \in SongEndCallbacks \cup {NoCallback} :
        LET w == Other(World, "setOnSongEnd")
        IN  Becomes([w EXCEPT !.adm.onSongEndCallback = callback])

(* play() and resume() (484-500, 513-526): both come to audio.play(), on a *)
(* paused element that has data or whose session is not loaded            *)
Play ==
    \E method \in {"play", "resume"} :
        /\ audioDataManager.audio.paused
        /\ HasData(audioDataManager.audio) \/ ~audioDataManager.isInitialized
        /\ LET w == Other(World, method)
           IN  Becomes([w EXCEPT !.adm.audio = ElementPlay(@)])

(* pause() (502-511) *)
Pause ==
    /\ ~audioDataManager.audio.paused
    /\ LET w == Other(World, "pause")
       IN  Becomes([w EXCEPT !.adm.audio = ElementPause(@)])

(* Calls on the Jukebox from its user interface *)

(* handlePlaylistStart (387-414) up to the await inside handleSongLoad *)
PlaylistStart ==
    /\ Len(jukebox.items) > 0
    /\ Len(audioDataManager.loads) < MaxLoads
    /\ Becomes(loadAudio(Begin(World, "start"), ItemAt(jukebox.items, 0).path,
                         Caller("start", 0, jukebox.currentIndex)))

(* handlePlaylistSongSelect (416-431) up to its first await *)
PlaylistSongSelect ==
    \E index \in 0..(Len(jukebox.items) - 1) :
        /\ Len(audioDataManager.loads) < MaxLoads
        /\ Becomes(loadAudio(Begin(World, "select"), ItemAt(jukebox.items, index).path,
                             Caller("select", index, jukebox.currentIndex)))

(* onRemoveSong (474-479) *)
RemoveSong ==
    \E index \in 0..(Len(jukebox.items) - 1) :
        LET w == Begin(World, "remove")
        IN  Becomes([w EXCEPT !.jb.items =
                                  SubSeq(@, 1, index) \o SubSeq(@, index + 2, Len(@)),
                              !.obs.trail = <<>>])

(* onSongSelect (491-499): the next song of the catalogue joins the list *)
AddSong ==
    /\ Len(jukebox.items) < MaxAdded
    /\ \A k \in 1..Len(jukebox.items) :
           jukebox.items[k] /= PlaylistItem(Len(jukebox.items) + 1)
    /\ LET w == Begin(World, "add")
       IN  Becomes([w EXCEPT !.jb.items = Append(@, PlaylistItem(Len(@) + 1))])

(* Calls on the PlayerCard (UI/PlayerCard.tsx) *)

(* handleModeChange (282-377) up to its await *)
ModeChange ==
    \E newMode \in PlaybackModes :
        /\ Len(audioDataManager.loads) < MaxLoads
        /\ LET w == Other(World, "modeChange")
               torn == Teardown([w EXCEPT !.adm.audio = ElementPause(@)])
               reset == [torn EXCEPT !.jb.mode = newMode,
                                     !.jb.isPlaying = FALSE,
                                     !.jb.currentIndex = 0,
                                     !.obs.trail = <<>>]
           IN  Becomes(IF Len(jukebox.items) > 0
                       THEN loadAudio(reset, ItemAt(jukebox.items, 0).path,
                                      Caller(newMode, 0, jukebox.currentIndex))
                       ELSE reset)

(* handleRepeatChange (379-387) *)
RepeatChange ==
    LET w == Begin(World, "repeatChange")
    IN  Becomes([w EXCEPT !.jb.repeat = ~jukebox.repeat])

(* The preview timeout fires (465-490). *)
PreviewTimeout ==
    /\ jukebox.previewTimeout.armed
    /\ Len(audioDataManager.loads) < MaxLoads
    /\ LET playlistState == jukebox.previewTimeout
           total == Len(playlistState.items)
           nextIndex == IF total = 0 THEN Undefined
                        ELSE (playlistState.currentIndex + 1) % total
           nextSong == ItemAt(playlistState.items, nextIndex)
           w == [Other(World, "previewTimeout") EXCEPT !.jb.previewTimeout = NoTimer]
           torn == Teardown([w EXCEPT !.adm.audio = ElementPause(@)])
       IN  Becomes(IF nextSong = NoItem THEN w
                   ELSE loadAudio(torn, nextSong.path,
                                  Caller("previewTimeout", nextIndex,
                                         playlistState.currentIndex)))

(* The Jukebox has mounted (32-39, 219-279): an empty session, and the *)
(* playlist and the play mode the user has chosen.                     *)
JukeboxStates ==
    { [items |-> items, currentIndex |-> 0, isPlaying |-> FALSE, mode |-> mode,
       repeat |-> repeat, previewTimeout |-> NoTimer] :
          items \in Playlists, mode \in PlaybackModes, repeat \in BOOLEAN }

SessionInit ==
    /\ audioDataManager = NewAudioDataManager
    /\ jukebox \in { j \in JukeboxStates :
                        ~j.repeat /\ Len(j.items) <= 1 /\ j.mode /= "preview" }
    /\ observed = NothingObserved
    /\ playlistManager = Idle
    /\ ServerIdle

SessionNext ==
    \/ LoadAudio \/ Cleanup \/ CallHandleSongEnd \/ Seek \/ Play \/ Pause
    \/ LoadedData \/ CanPlay \/ MediaError \/ Ended \/ Progress

SessionSpec == SessionInit /\ [][SessionNext]_vars

(* The session on a platform that delivers its media events: a resource *)
(* that is being fetched arrives or fails, and an element that has data *)
(* comes to 'canplay'.  Calls from outside may stop at any time.        *)
SessionFairSpec ==
    /\ SessionSpec
    /\ WF_vars(LoadedData \/ MediaError)
    /\ WF_vars(CanPlay)

(* The session of a host that also replaces the onSongEnd callback *)
CallbackInit ==
    /\ audioDataManager = NewAudioDataManager
    /\ jukebox \in { j \in JukeboxStates :
                        ~j.repeat /\ Len(j.items) = 1 /\ j.mode = "normal" }
    /\ observed = NothingObserved
    /\ playlistManager = Idle
    /\ ServerIdle

CallbackNext ==
    \/ SetOnSongEnd \/ LoadAudio \/ Cleanup \/ CallHandleSongEnd \/ Seek
    \/ LoadedData \/ CanPlay \/ MediaError \/ Ended

CallbackSpec == CallbackInit /\ [][CallbackNext]_vars

JukeboxInit ==
    /\ audioDataManager = NewAudioDataManager
    /\ jukebox \in { j \in JukeboxStates : j.mode /= "preview" }
    /\ observed = NothingObserved
    /\ playlistManager = Idle
    /\ ServerIdle

JukeboxNext ==
    \/ PlaylistStart \/ PlaylistSongSelect \/ RemoveSong \/ Play \/ Pause
    \/ LoadedData \/ CanPlay \/ MediaError \/ Ended \/ Progress

JukeboxSpec == JukeboxInit /\ [][JukeboxNext]_vars

(* The Jukebox with its PlayerCard: the user builds the playlist, starts   *)
(* it, picks songs, and changes the play mode and the repeat flag.         *)
PlayerInit ==
    /\ audioDataManager = NewAudioDataManager
    /\ jukebox \in { j \in JukeboxStates : ~j.repeat /\ Len(j.items) <= 1 }
    /\ observed = NothingObserved
    /\ playlistManager = Idle
    /\ ServerIdle

PlayerNext ==
    \/ PlaylistStart \/ PlaylistSongSelect \/ RemoveSong \/ AddSong
    \/ ModeChange \/ RepeatChange \/ PreviewTimeout
    \/ LoadedData \/ MediaError \/ Ended

PlayerSpec == PlayerInit /\ [][PlayerNext]_vars

-----------------------------------------------------------------------------
(* Properties of the playback session and of the Jukebox *)

SongCount == Len(jukebox.items)
NoDuplicates(seq) == \A a, b \in 1..Len(seq) : a /= b => seq[a] /= seq[b]
(* the end-of-track signal has just reached the Jukebox *)
EndDelivered == observed.op = "ended" /\ observed.invoked

(* C12: with playlist [A,B,C], sequential mode and repeat off, started and   *)
(* advanced 0 -> 1 -> 2 by the end-of-track signals, the end-of-track signal *)
(* on C stops playback: isPlaying false, no further load, currentIndex 2.    *)
C12_StopsAfterLastTrack ==
    ( /\ SongCount = 3
      /\ jukebox.mode = "normal"
      /\ ~jukebox.repeat
      /\ observed.trail = <<0, 1, 2>>
      /\ EndDelivered )
    => /\ audioDataManager.loads = <<>>
       /\ ~jukebox.isPlaying
       /\ jukebox.currentIndex = 2

(* C14: in shuffle mode with repeat on and N items, the N end-of-track       *)
(* advances after a start at s play every index once and come back to s.    *)
C14_ShuffleWalksEveryIndexOnce ==
    ( /\ jukebox.mode = "shuffle"
      /\ jukebox.repeat
      /\ observed.trail /= <<>>
      /\ \A k \in 1..Len(observed.trail) : observed.trail[k] \in 0..(SongCount - 1) )
    => LET walk == SubSeq(observed.trail, 1,
                          IF Len(observed.trail) > SongCount + 1
                          THEN SongCount + 1 ELSE Len(observed.trail))
       IN  /\ NoDuplicates(SubSeq(walk, 1, IF Len(walk) > SongCount
                                           THEN SongCount ELSE Len(walk)))
           /\ Len(walk) = SongCount + 1 => walk[SongCount + 1] = walk[1]

(* C16: whenever seek changes the position, for a finite requested time that *)
(* is negative, inside or beyond the duration, buffered or not, the position *)
(* it asks for and the position that results lie in [0, duration].           *)
C16_SeekWithinDuration ==
    LET wrote == observed.seekWrote
        audio == audioDataManager.audio
    IN  wrote /= NoSeekWrite
        => /\ 0 <= wrote.time /\ wrote.time <= wrote.duration
           /\ wrote.requested \in 0..wrote.duration => wrote.time = wrote.requested
           /\ HasData(audio)
           /\ 0 <= audio.currentTime /\ audio.currentTime <= Duration(audio.src)

(* an unbuffered seek beyond the end has been completed by 'canplay' *)
C16_Witness ==
    /\ observed.seekWrote /= NoSeekWrite
    /\ ~observed.seekWrote.buffered
    /\ observed.seekWrote.requested > observed.seekWrote.duration
    /\ observed.seekWrote.time = observed.seekWrote.duration
    /\ audioDataManager.audio.currentTime = observed.seekWrote.duration

(* C17: after two loadAudio calls in succession, once the second has         *)
(* completed, exactly one listener set is on the media element: one handler  *)
(* per lifecycle event, all of the second load and all recorded.             *)
C17_OneListenerSet ==
    ( /\ Len(observed.calls) = 2
      /\ audioDataManager.loads = <<>>
      /\ audioDataManager.seeks = <<>>
      /\ audioDataManager.isInitialized )
    => /\ audioDataManager.audio.listeners = ListenerSet(observed.calls[2])
       /\ audioDataManager.eventListeners = ListenerSet(observed.calls[2])

(* C18: a loadAudio that was still waiting when a later loadAudio tore the   *)
(* session down is never completed as a success by the later track's load    *)
(* signal, and its caller never goes on to play().                           *)
C18_StaleLoadIgnored ==
    \A done \in observed.completed \cup observed.played : done.path = done.src

(* C19: the onSongEnd callback is invoked at most once for a loaded track,   *)
(* however many 'ended' events and handleSongEnd calls arrive for it.        *)
C19_OncePerTrack == observed.songEndCalls <= 1

(* C20: from a cleanup() to the next successful loadAudio no 'ended' event   *)
(* and no handleSongEnd call invokes the onSongEnd callback.                 *)
C20_SilentWhileTornDown == observed.invoked => ~observed.wasTornDown

(* handleSongEnd was called on a torn-down session that had been loaded *)
C20_Witness ==
    /\ observed.op = "handleSongEnd"
    /\ observed.wasTornDown
    /\ observed.calls = <<>>
    /\ ~audioDataManager.isInitialized
    /\ ~observed.invoked
(* C21: a play() or resume() call made while the session is not loaded    *)
(* never returns normally: its promise is never resolved.                 *)
C21_NotReadyPlayRejects == audioDataManager.audio.playPromise /= "resolved"
(* C22: whenever the playlist is not empty, 0 <= currentIndex <              *)
(* items.length: after songs were added and removed, a song was picked, the *)
(* end of a track or the preview timeout advanced the index, and the mode   *)
(* was changed.                                                             *)
C22_IndexInRange ==
    SongCount > 0 => jukebox.currentIndex \in 0..(SongCount - 1)

(* C25: when the preview timeout fires, the track loaded next is the one at *)
(* currentIndex + 1; on the last track nothing is loaded and playback stops *)
(* when repeat is off, and the track at index 0 is loaded when repeat is on.*)
C25_PreviewAdvancesAsSequential ==
    [][ ( /\ observed'.op = "previewTimeout"
          /\ jukebox.previewTimeout.items = jukebox.items
          /\ jukebox.currentIndex \in 0..(SongCount - 1) )
        => LET started == SubSeq(audioDataManager'.loads,
                                 Len(audioDataManager.loads) + 1,
                                 Len(audioDataManager'.loads))
               next == IF jukebox.currentIndex < SongCount - 1
                       THEN jukebox.currentIndex + 1
                       ELSE IF jukebox.repeat THEN 0 ELSE Stop
           IN  IF next = Stop
               THEN started = <<>> /\ ~jukebox'.isPlaying
               ELSE /\ Len(started) = 1
                    /\ started[1].caller.index = next
                    /\ started[1].path = ItemAt(jukebox.items, next).path ]_vars
(* C23: a change of the playback mode resets the session: currentIndex is  *)
(* 0 again, nothing plays, and in shuffle mode a new permutation of the    *)
(* items is in place.                                                      *)
C23_ModeChangeResets ==
    ( /\ observed.op = "handleModeChange"
      /\ observed.mounted
      /\ ItemCount > 0 )
    => /\ playlistManager.currentIndex = 0
       /\ ~playlistManager.isPlaying
       /\ ~playlistManager.audio.playing
       /\ playlistManager.mode = "shuffle"
              => IsPermutation(playlistManager.shuffleOrder, ItemCount)

(* C24: a toggle of the repeat flag resets the session: currentIndex is 0  *)
(* again and nothing plays.                                                *)
C24_RepeatToggleResets ==
    ( /\ observed.op = "handleRepeatChange"
      /\ observed.mounted
      /\ playlistManager.repeat /= observed.repeat )
    => /\ playlistManager.currentIndex = 0
       /\ ~playlistManager.isPlaying
       /\ ~playlistManager.audio.playing

(* C26: a timer that fires after the PlaylistManager has unmounted, or      *)
(* after the mode has been changed away from preview, loads and plays      *)
(* nothing and leaves the playlist state as it is.                         *)
C26_OrphanedTimerIsSilent ==
    [][ ( /\ observed'.op = "timer"
          /\ ~playlistManager.mounted \/ playlistManager.mode /= "preview" )
        => /\ playlistManager'.audio = playlistManager.audio
           /\ playlistManager'.mode = playlistManager.mode
           /\ playlistManager'.isPlaying = playlistManager.isPlaying
           /\ playlistManager'.currentIndex = playlistManager.currentIndex
           /\ playlistManager'.currentSong = playlistManager.currentSong ]_vars
(* C27: only the onSongEnd setter changes the onSongEnd callback: cleanup, *)
(* loadAudio, whether it succeeds or fails, and seek leave it as it is;    *)
(* and no call, the setter included, changes the other four callbacks.     *)
C27_CallbackKept ==
    [][ /\ observed'.op /= "setOnSongEnd"
           => audioDataManager'.onSongEndCallback = audioDataManager.onSongEndCallback
        /\ audioDataManager'.callbacks = audioDataManager.callbacks ]_vars

(* a loadAudio has succeeded after the callback had been replaced *)
C27_Witness ==
    /\ observed.op = "loadeddata"
    /\ observed.completed /= {}
    /\ audioDataManager.isInitialized
    /\ audioDataManager.onSongEndCallback = "replaced"
    /\ audioDataManager.callbacks = HostCallbacks
(* C28: a seek on a session that is not loaded, with a time that is not    *)
(* finite, or while the duration is not finite, returns at once: the       *)
(* position, paused, the listeners and the readiness of the element are as *)
(* before and no seek is left waiting.                                     *)
C28_RefusedSeekChangesNothing ==
    [][ ( /\ observed'.op = "seek"
          /\ \/ ~audioDataManager.isInitialized
             \/ ~observed'.finiteTime
             \/ ~isFinite(duration(audioDataManager.audio)) )
        => /\ audioDataManager'.audio.currentTime = audioDataManager.audio.currentTime
           /\ audioDataManager'.audio.paused = audioDataManager.audio.paused
           /\ audioDataManager'.audio.phase = audioDataManager.audio.phase
           /\ audioDataManager'.audio.listeners = audioDataManager.audio.listeners
           /\ audioDataManager'.eventListeners = audioDataManager.eventListeners
           /\ audioDataManager'.seeks = audioDataManager.seeks ]_vars

(* seek(NaN) has returned on a loaded session that plays in mid-track *)
C28_Witness ==
    /\ observed.op = "seek"
    /\ ~observed.finiteTime
    /\ audioDataManager.isInitialized
    /\ HasData(audioDataManager.audio)
    /\ ~audioDataManager.audio.paused
    /\ audioDataManager.audio.currentTime > 0
    /\ audioDataManager.seeks = <<>>
(* C29: every seek that waits for its reload is settled in the end, also  *)
(* when the reload fails or the session is torn down while it waits.      *)
C29_SeekSettles ==
    (audioDataManager.seeks /= <<>>) ~> (audioDataManager.seeks = <<>>)
(* C30: unless a seek is waiting for its reload, the lifecycle handlers on *)
(* the media element are exactly those recorded in eventListeners; and    *)
(* after cleanup() there is none, whatever was waiting when it ran.       *)
C30_NoDanglingListeners ==
    /\ audioDataManager.seeks = <<>>
           => audioDataManager.audio.listeners = audioDataManager.eventListeners
    /\ observed.op = "cleanup" => audioDataManager.audio.listeners = {}
(* C31: when the load signal of a waiting loadAudio is an error, the      *)
(* session is left in the error state: isInitialized is false, no         *)
(* lifecycle handler and no one-shot load or error handler is on the      *)
(* media element, and the onSongEnd callback has not been invoked.        *)
C31_FailedLoadLeavesErrorState ==
    [][ observed'.op = "error" /\ audioDataManager.loads /= <<>>
        => /\ ~audioDataManager'.isInitialized
           /\ audioDataManager'.audio.listeners = {}
           /\ audioDataManager'.eventListeners = {}
           /\ audioDataManager'.loads = <<>>
           /\ ~observed'.invoked ]_vars

(* the indices the next steps end-of-track events go to in shuffle mode, *)
(* by getNextShuffleIndex from index on                                  *)
RECURSIVE ShuffleWalk(_, _, _)
ShuffleWalk(order, index, steps) ==
    IF steps = 0 THEN <<>>
    ELSE LET nextIndex == getNextShuffleIndex(order, index)
         IN  <<nextIndex>> \o ShuffleWalk(order, nextIndex, steps - 1)

(* C32: jumpToIndex(i) in shuffle mode with 0 <= i < items.length leaves  *)
(* the previous order rotated so that i is its head, and the next N - 1   *)
(* end-of-track steps visit every other index exactly once; with i out of *)
(* range the call changes neither the state nor the order.                *)
C32_JumpRotatesOrder ==
    [][ observed'.op = "jumpToIndex"
        => LET i == observed'.arg
               total == Len(playlistManager.items)
               before == playlistManager.shuffleOrder
               after == playlistManager'.shuffleOrder
               walk == ShuffleWalk(after, i, total - 1)
           IN  IF i \in 0..(total - 1)
               THEN playlistManager.mode = "shuffle"
                    => /\ IndexOf(before, i) /= -1
                       /\ after = Rotate(before, IndexOf(before, i))
                       /\ Len(after) = total
                       /\ after /= <<>> /\ Head(after) = i
                       /\ NoDuplicates(walk)
                       /\ { walk[k] : k \in 1..Len(walk) } = (0..(total - 1)) \ {i}
               ELSE playlistManager' = playlistManager ]_vars

-----------------------------------------------------------------------------
(* Buffer progress reporting: the debounce at the end of                    *)
(* refreshPlaybackState (audio-data/index.tsx 528-608), with the clock it   *)
(* reads and the two fields it keeps.  Here audioDataManager holds          *)
(* isInitialized, lastBufferUpdate, lastBufferedBytes and the element's     *)
(* duration and buffered end; observed holds the clock, what the last task  *)
(* emitted, and the time and value of the last emission there has been.     *)

TrackSeconds == 20     \* length of the track: a second buffered is 5 points
MaxBufferEnd == 3      \* most seconds buffered
StartTime == 2000      \* Date.now() when the manager is constructed, in ms
MaxClock == 4          \* clock steps of TimeStep ms

(* the limits of line 593 *)
DebounceMs == 1000
DebouncePoints == 5

Abs(x) == IF x < 0 THEN 0 - x ELSE x

(* bufferProgress (537-541): 0 without a buffered range *)
bufferProgress(audio) ==
    IF audio.bufferedEnd < 0 THEN 0
    ELSE (audio.bufferedEnd * 100) \div audio.duration

(* the test of line 593 with >= for the time *)
ShouldEmitInclusive(adm, now, progress) ==
    \/ now - adm.lastBufferUpdate >= DebounceMs
    \/ Abs(progress - adm.lastBufferedBytes) > DebouncePoints

(* now - lastBufferUpdate > 1000 || Math.abs(bufferProgress - lastBufferedBytes) > 5 *)
ShouldEmit(adm, now, progress) ==
    \/ now - adm.lastBufferUpdate > DebounceMs
    \/ Abs(progress - adm.lastBufferedBytes) > DebouncePoints

NoEmission == [time |-> -1, value |-> 0]

(* refreshPlaybackState (528-608), as to onBufferProgress: the manager and *)
(* the record of the run after the call at time now                        *)
refreshPlaybackState(adm, obs) ==
    LET now == obs.now
        progress == bufferProgress(adm.audio)
    IN  IF ~adm.isInitialized THEN [adm |-> adm, obs |-> obs]
        ELSE IF ShouldEmit(adm, now, progress)
        THEN [adm |-> [adm EXCEPT !.lastBufferUpdate = now,
                                  !.lastBufferedBytes = progress],
              obs |-> [obs EXCEPT !.emitted = <<progress>>,
                                  !.lastEmission = [time |-> now, value |-> progress]]]
        ELSE [adm |-> adm, obs |-> obs]

ProgressFrame == UNCHANGED <<workerVars, bufferVars, playlistManager, jukebox>>
ProgressTask(op) == [observed EXCEPT !.op = op, !.emitted = <<>>]

(* 'timeupdate' reaches the handler of line 245. *)
TimeUpdate ==
    LET after == refreshPlaybackState(audioDataManager, ProgressTask("timeupdate"))
    IN  /\ audioDataManager.isInitialized
        /\ audioDataManager' = after.adm
        /\ observed' = after.obs
        /\ ProgressFrame

(* The buffered range of the loaded track grows or, after a reload, shrinks. *)
BufferChange ==
    \E end \in 0..MaxBufferEnd :
        /\ audioDataManager.isInitialized
        /\ end /= audioDataManager.audio.bufferedEnd
        /\ audioDataManager' = [audioDataManager EXCEPT !.audio.bufferedEnd = end]
        /\ observed' = ProgressTask("progress")
        /\ ProgressFrame

(* cleanup (363-406): the two fields go back to 0 (399-400) *)
TrackCleanup ==
    /\ audioDataManager' = [audioDataManager EXCEPT !.isInitialized = FALSE,
                                                    !.lastBufferUpdate = 0,
                                                    !.lastBufferedBytes = 0,
                                                    !.audio.bufferedEnd = -1]
    /\ observed' = ProgressTask("cleanup")
    /\ ProgressFrame

(* loadAudio (282-345) has succeeded: its cleanup (297), then the new track *)
(* with end seconds of it buffered (333)                                    *)
TrackLoaded ==
    \E end \in 0..MaxBufferEnd :
        /\ audioDataManager' = [audioDataManager EXCEPT !.isInitialized = TRUE,
                                                        !.lastBufferUpdate = 0,
                                                        !.lastBufferedBytes = 0,
                                                        !.audio.bufferedEnd = end]
        /\ observed' = ProgressTask("loadAudio")
        /\ ProgressFrame

(* Time passes. *)
ClockTick ==
    /\ observed.now < StartTime + MaxClock * TimeStep
    /\ audioDataManager' = audioDataManager
    /\ observed' = [ProgressTask("tick") EXCEPT !.now = @ + TimeStep]
    /\ ProgressFrame

(* The constructor has run (180-181, 184-195). *)
ProgressInit ==
    /\ audioDataManager = [isInitialized |-> FALSE, lastBufferUpdate |-> 0,
                           lastBufferedBytes |-> 0,
                           audio |-> [duration |-> TrackSeconds, bufferedEnd |-> -1]]
    /\ observed = [op |-> "none", now |-> StartTime, emitted |-> <<>>,
                   lastEmission |-> NoEmission]
    /\ playlistManager = Idle
    /\ jukebox = Idle
    /\ ServerIdle

ProgressNext == TimeUpdate \/ BufferChange \/ TrackCleanup \/ TrackLoaded \/ ClockTick

ProgressSpec == ProgressInit /\ [][ProgressNext]_vars

(* C33: on a position update onBufferProgress is emitted only if more than *)
(* 1000 ms have passed since the last emission or the progress differs by  *)
(* more than 5 percentage points from the value last emitted.              *)
C33_EmittedOnlyAfterLastEmission ==
    [][ ( /\ observed'.op = "timeupdate"
          /\ observed'.emitted /= <<>>
          /\ observed.lastEmission /= NoEmission )
        => \/ observed.now - observed.lastEmission.time > 1000
           \/ Abs(observed'.emitted[1] - observed.lastEmission.value) > 5 ]_vars

(* C33 as the code has it: on a position update onBufferProgress is        *)
(* emitted, with the progress of that moment, exactly if more than 1000 ms *)
(* have passed since the recorded last-emission time or the progress       *)
(* differs by more than 5 percentage points from the recorded value, and   *)
(* then both are recorded; otherwise nothing is emitted and the record     *)
(* stays as it is.  The record is that of the last emission since the      *)
(* last cleanup(), which puts it back to 0 and 0.                          *)
C33_Debounced ==
    [][ observed'.op = "timeupdate"
        => LET progress == bufferProgress(audioDataManager.audio)
           IN  /\ audioDataManager.lastBufferUpdate \in {0, observed.lastEmission.time}
               /\ audioDataManager.lastBufferedBytes \in {0, observed.lastEmission.value}
               /\ IF \/ observed.now - audioDataManager.lastBufferUpdate > 1000
                     \/ Abs(progress - audioDataManager.lastBufferedBytes) > 5
                  THEN /\ observed'.emitted = <<progress>>
                       /\ audioDataManager'.lastBufferUpdate = observed.now
                       /\ audioDataManager'.lastBufferedBytes = progress
                  ELSE /\ observed'.emitted = <<>>
                       /\ audioDataManager' = audioDataManager ]_vars

(* a position update one second after the last emission, with the progress *)
(* 5 points above the value emitted then, has emitted nothing               *)
C33_Witness ==
    /\ observed.op = "timeupdate"
    /\ observed.emitted = <<>>
    /\ audioDataManager.isInitialized
    /\ observed.lastEmission /= NoEmission
    /\ observed.now - audioDataManager.lastBufferUpdate = 1000
    /\ bufferProgress(audioDataManager.audio) - audioDataManager.lastBufferedBytes = 5

-----------------------------------------------------------------------------
(* Further properties of the manifest route *)

(* the last request was a getMusicList without validators *)
Unconditional(req) ==
    /\ IsMusicList(req)
    /\ req.ifNoneMatch = Null
    /\ req.ifModifiedSince = Null

(* C34: a getMusicList request that carries neither If-None-Match nor      *)
(* If-Modified-Since is never answered 304 or without a body, whatever     *)
(* requests came before it.                                                *)
C34_UnconditionalGetsBody ==
    (Replied /\ Unconditional(request))
    => /\ Status /= 304
       /\ outcome.response.body /= NullBody

(* C35: a client that sends back, in If-Modified-Since, the Last-Modified  *)
(* value the worker gives for the stored manifest is answered 304 while    *)
(* the manifest is unchanged, whatever the instant of the upload, also     *)
(* one that is not a whole second.                                         *)
C35_LastModifiedRoundTrip ==
    ( /\ Replied /\ IsMusicList(request) /\ failed = "none"
      /\ manifest /= NoObject
      /\ request.ifModifiedSince = toUTCString(manifest.uploaded) )
    => Status = 304

-----------------------------------------------------------------------------
(* Further properties of the playlist sequencer *)

(* the calls of PlaylistManager that load a track *)
LoadingCalls == {"startPlaylist", "handleSongEnd", "jumpToIndex", "handleModeChange", "timer"}

(* C36: when a load started by startPlaylist, handleSongEnd, jumpToIndex   *)
(* or handleModeChange has completed, the path in the audio session is     *)
(* that of items[currentIndex], in every mode.                             *)
C36_IndexNamesLoadedTrack ==
    [][ ( /\ observed'.op \in LoadingCalls
          /\ playlistManager.mounted
          /\ playlistManager'.audio /= playlistManager.audio
          /\ playlistManager'.audio.src /= "" )
        => playlistManager'.audio.src =
               ItemAt(playlistManager'.items, playlistManager'.currentIndex).path ]_vars

-----------------------------------------------------------------------------
(* Further properties of the Jukebox and of its PlayerCard *)

(* the loads that wait for their signal, and the one loadAndPlay awaits *)
PendingLoads == audioDataManager.loads
NextSongPending ==
    /\ PendingLoads /= <<>>
    /\ Head(PendingLoads).caller.kind = "songEnd"
(* no handlePlaylistStart waits as well *)
NoStartPending ==
    \A k \in 1..Len(PendingLoads) : PendingLoads[k].caller.kind /= "start"

C38_ShuffleOnEmptyPlaylist ==
    /\ ( /\ observed.op = "handleModeChange"
         /\ observed.newMode = "shuffle"
         /\ observed.mounted
         /\ ItemCount = 0 )
       => /\ ~observed.threw
          /\ playlistManager.mode = "shuffle"
          /\ ~playlistManager.isPlaying
          /\ playlistManager.currentIndex /= Undefined
          /\ playlistManager.shuffleOrder = <<>>
    /\ ( /\ EndHandled
         /\ observed.mode = "shuffle" )
       => getNextShuffleIndex(observed.order, observed.index) /= Undefined

-----------------------------------------------------------------------------
(* The playlist builder: getAvailableGenres and getAvailableVersions with  *)
(* the cache of their module (playlist-builder/utils.ts 4-63).  Here       *)
(* jukebox holds that cache, two maps from a key to a set, and observed    *)
(* the last call with its result.  An array of songs is a sequence; a      *)
(* result is taken as the set of its elements.                             *)

Song(songName, genre, version) ==
    [songName |-> songName, genre |-> genre, version |-> version]
(* the song lists the builder is given as the catalogue grows *)
Catalogues ==
    { <<>>,
      <<Song("A", "rock", "v1")>>,
      <<Song("A", "rock", "v1"), Song("A", "jazz", "v2")>>,
      <<Song("A", "rock", "v1"), Song("A", "jazz", "v2"), Song("B", "rock", "v2")>> }
SongSelections == { {}, {"A"}, {"A", "B"} }
GenreSelections == { {}, {"rock"}, {"jazz", "rock"} }

(* the strings of the model in the order Array.prototype.sort gives them *)
Sorted == <<"A", "B", "jazz", "rock", "v1", "v2">>

(* Array.from(set).sort().join('|') *)
RECURSIVE JoinFrom(_, _)
JoinFrom(set, k) ==
    IF k > Len(Sorted) THEN ""
    ELSE IF Sorted[k] \notin set THEN JoinFrom(set, k + 1)
    ELSE IF \E m \in (k + 1)..Len(Sorted) : Sorted[m] \in set
    THEN Sorted[k] \o "|" \o JoinFrom(set, k + 1)
    ELSE Sorted[k]
SortJoin(set) == JoinFrom(set, 1)

NoCache == [genres |-> << >>, versions |-> << >>]

(* allSongs.filter(...).forEach(song => genres.add(song.genre)) (21-24) *)
GenresOf(allSongs, selectedSongs) ==
    { allSongs[k].genre : k \in { n \in 1..Len(allSongs) :
                                     allSongs[n].songName \in selectedSongs } }

(* the same for the versions (46-52) *)
VersionsOf(allSongs, selectedSongs, selectedGenres) ==
    { allSongs[k].version : k \in { n \in 1..Len(allSongs) :
                                       /\ allSongs[n].songName \in selectedSongs
                                       /\ allSongs[n].genre \in selectedGenres } }

(* getAvailableGenres (10-29): the cache after the call and the result *)
getAvailableGenres(cch, allSongs, selectedSongs) ==
    LET cacheKey == SortJoin(selectedSongs)
        filled == IF cacheKey \in DOMAIN cch.genres THEN cch
                  ELSE [cch EXCEPT !.genres =
                           @ @@ (cacheKey :> GenresOf(allSongs, selectedSongs))]
    IN  IF selectedSongs = {} THEN [cache |-> cch, result |-> {}]
        ELSE [cache |-> filled, result |-> filled.genres[cacheKey]]

(* getAvailableVersions (32-57) *)
getAvailableVersions(cch, allSongs, selectedSongs, selectedGenres) ==
    LET cacheKey == SortJoin(selectedSongs) \o "::" \o SortJoin(selectedGenres)
        filled == IF cacheKey \in DOMAIN cch.versions THEN cch
                  ELSE [cch EXCEPT !.versions =
                           @ @@ (cacheKey :> VersionsOf(allSongs, selectedSongs,
                                                         selectedGenres))]
    IN  IF selectedSongs = {} \/ selectedGenres = {} THEN [cache |-> cch, result |-> {}]
        ELSE [cache |-> filled, result |-> filled.versions[cacheKey]]

NoBuilderCall == [op |-> "none", allSongs |-> <<>>, selectedSongs |-> {},
                  selectedGenres |-> {}, result |-> {}]
BuilderFrame == UNCHANGED <<workerVars, bufferVars, playlistManager, audioDataManager>>

GetAvailableGenres ==
    \E allSongs \in Catalogues, selectedSongs \in SongSelections :
        LET call == getAvailableGenres(jukebox.cache, allSongs, selectedSongs)
        IN  /\ observed.op = "none"
            /\ jukebox' = [jukebox EXCEPT !.cache = call.cache]
            /\ observed' = [op |-> "getAvailableGenres", allSongs |-> allSongs,
                            selectedSongs |-> selectedSongs, selectedGenres |-> {},
                            result |-> call.result]
            /\ BuilderFrame

GetAvailableVersions ==
    \E allSongs \in Catalogues, selectedSongs \in SongSelections,
       selectedGenres \in GenreSelections :
        LET call == getAvailableVersions(jukebox.cache, allSongs, selectedSongs,
                                         selectedGenres)
        IN  /\ observed.op = "none"
            /\ jukebox' = [jukebox EXCEPT !.cache = call.cache]
            /\ observed' = [op |-> "getAvailableVersions", allSongs |-> allSongs,
                            selectedSongs |-> selectedSongs,
                            selectedGenres |-> selectedGenres,
                            result |-> call.result]
            /\ BuilderFrame

(* clearCache (60-63) *)
ClearCache ==
    /\ observed.op = "none"
    /\ jukebox.cache /= NoCache
    /\ jukebox' = [jukebox EXCEPT !.cache = NoCache]
    /\ observed' = [NoBuilderCall EXCEPT !.op = "clearCache"]
    /\ BuilderFrame

(* The call has returned. *)
BuilderSettle ==
    /\ observed.op /= "none"
    /\ observed' = NoBuilderCall
    /\ UNCHANGED jukebox
    /\ BuilderFrame

(* The module has been loaded (5-8). *)
BuilderInit ==
    /\ jukebox = [cache |-> NoCache]
    /\ observed = NoBuilderCall
    /\ playlistManager = Idle
    /\ audioDataManager = Idle
    /\ ServerIdle

BuilderNext == GetAvailableGenres \/ GetAvailableVersions \/ ClearCache \/ BuilderSettle

BuilderSpec == BuilderInit /\ [][BuilderNext]_vars

(* C39: whatever calls came before, getAvailableGenres returns the genres  *)
(* of the songs of the allSongs it is given whose songName is selected,    *)
(* and getAvailableVersions the versions of those whose genre is selected  *)
(* as well: the memoized result is the uncached one.                       *)
C39_MemoIsTransparent ==
    /\ observed.op = "getAvailableGenres"
           => observed.result = GenresOf(observed.allSongs, observed.selectedSongs)
    /\ observed.op = "getAvailableVersions"
           => observed.result = VersionsOf(observed.allSongs, observed.selectedSongs,
                                           observed.selectedGenres)

(* the load of a preview timeout waits for its signal *)
PreviewLoadPending ==
    \E k \in 1..Len(PendingLoads) : PendingLoads[k].caller.kind = "previewTimeout"

(* C40: when the user changes the mode while the load started by the       *)
(* preview timeout is in flight, the completion of that load does not      *)
(* undo the change: the mode stays the one chosen, isPlaying stays false   *)
(* and currentIndex 0, and play() is not called.                           *)
C40_StalePreviewLoadIgnored ==
    [][ ( /\ observed.op = "modeChange"
          /\ PreviewLoadPending
          /\ observed'.op = "loadeddata" )
        => /\ jukebox'.mode = jukebox.mode
           /\ ~jukebox'.isPlaying
           /\ jukebox'.currentIndex = 0
           /\ observed'.played = {} ]_vars
====
